---- MODULE Spec2Model ----
(***************************************************************************)
(* Orchestration core of the shop chat agent: the chat session handler     *)
(* (two routes: the tool-loop route with the VADF rule engine, and the     *)
(* MCP-connector route with a customer access token), the Claude service,  *)
(* the tool service and the VADF response manager.                         *)
(*                                                                         *)
(* Text is modelled as sequences of one-character strings so that          *)
(* String.includes and String.toLowerCase are computed, not assumed.       *)
(* Accented letters are one-character strings named in ASCII: "e_acute",   *)
(* "e_grave", "a_grave" and their capitals.                                *)
(***************************************************************************)
EXTENDS Integers, Sequences, FiniteSets, TLC

VARIABLES
    variant,             \* "A": route with MCPClient and the VADF branch; "B": route with the MCP connector
    vadfManager,         \* vadfManagerInstance: Null, or the loaded manager (code copy + rule set)
    promptType,          \* body.prompt_type || AppConfig.api.defaultPromptType
    userMessage,         \* body.message, a character sequence
    customerAccessToken, \* route B: the token of the conversation, or Null
    pc,                  \* position of handleChatSession
    events,              \* the stream.sendMessage calls so far, in order
    conversationHistory, \* the in-memory history of the session
    db,                  \* the rows of the conversation in the external store
    productsToDisplay,   \* accumulator of normalized products
    finalMessage,        \* last value returned by streamConversation
    toolIdx,             \* streamConversation: index of the next tool_use block to handle
    vadfIntent,          \* result of detectIntent in this session, Null before classification
    modelCalls,          \* number of anthropic messages.stream calls made
    toolCalls,           \* the mcpClient.callTool calls made, in order
    mcpTools,            \* route A: mcpClient.tools after discovery
    vadfContext,         \* the context handed to getResponse
    vadfResponse,        \* the value returned by getResponse, after the override
    toolUseResponse,     \* the tool response being handled
    callers,             \* the getVadfManager calls of the requests in progress, by request
    calls,               \* the detectIntent and getResponse calls made on the manager, in order
    error,               \* the error thrown inside handleChatSession, Null while none was thrown
    connected,           \* the client still reads the event stream
    deltas,              \* the text deltas the model has delivered in this turn, in arrival order
    sessions,            \* concurrent sessions on one conversation: the position and history of each
    httpRequest,         \* the HTTP request a handler was given
    httpResponse,        \* the HTTP response the handler returned
    customerAccountUrls, \* the customer account URL the store holds for each conversation, Null if none
    resolutions,         \* the getCustomerMcpEndpoint calls of the requests, by request
    accountCheckResult   \* the value checkVadfCustomerAccount returned in this session, NoAccountCheck if it was not called

vars == <<variant, vadfManager, promptType, userMessage, customerAccessToken,
          pc, events, conversationHistory, db, productsToDisplay, finalMessage,
          toolIdx, vadfIntent, modelCalls, toolCalls, mcpTools,
          vadfContext, vadfResponse, toolUseResponse, callers, calls, error, connected,
          deltas, sessions, httpRequest, httpResponse, customerAccountUrls, resolutions, accountCheckResult>>

Null == "null"

\* the value undefined, where a string is expected
Undefined == "undefined"

(***************************************************************************)
(* Bounds of the model.                                                    *)
(***************************************************************************)
MaxWords == 2
MaxModelCalls == 2
MaxToolUses == 2

\* requests made for one conversation
MaxTurns == 2

\* products in the payload of one product search
MaxProducts == 3

\* segments a template text is made of
MaxSegments == 3

\* requests in progress in one process
MaxRequests == 2

\* text deltas of one model call
MaxDeltas == 2

\* concurrent sessions on one conversation
MaxSessions == 2

(***************************************************************************)
(* Text: String.prototype.toLowerCase and String.prototype.includes.       *)
(***************************************************************************)
UpperToLower ==
    [c \in {"A", "B", "C", "D", "E", "F", "G", "H", "I", "J", "K", "L", "M", "N", "O",
            "P", "Q", "R", "S", "T", "U", "V", "W", "X", "Y", "Z", "E_acute", "A_grave"} |->
        CASE c = "A" -> "a" [] c = "B" -> "b" [] c = "C" -> "c" [] c = "D" -> "d"
          [] c = "E" -> "e" [] c = "F" -> "f" [] c = "G" -> "g" [] c = "H" -> "h"
          [] c = "I" -> "i" [] c = "J" -> "j" [] c = "K" -> "k" [] c = "L" -> "l"
          [] c = "M" -> "m" [] c = "N" -> "n" [] c = "O" -> "o" [] c = "P" -> "p"
          [] c = "Q" -> "q" [] c = "R" -> "r" [] c = "S" -> "s" [] c = "T" -> "t"
          [] c = "U" -> "u" [] c = "V" -> "v" [] c = "W" -> "w" [] c = "X" -> "x"
          [] c = "Y" -> "y" [] c = "Z" -> "z" [] c = "E_acute" -> "e_acute" [] c = "A_grave" -> "a_grave"]

toLowerCase(s) ==
    [i \in 1..Len(s) |-> IF s[i] \in DOMAIN UpperToLower THEN UpperToLower[s[i]] ELSE s[i]]

includes(s, k) ==
    \E i \in 1..(Len(s) - Len(k) + 1) : SubSeq(s, i, i + Len(k) - 1) = k

\* keywords.some(k => msg.includes(k))
someIncluded(keywords, msg) ==
    \E j \in 1..Len(keywords) : includes(msg, keywords[j])

(***************************************************************************)
(* VADFResponseManager.detectIntent: the keyword tables of both copies.    *)
(***************************************************************************)
specificMappingV1 ==
    <<
       [intent |-> "activation_compte", keywords |-> <<
            <<"a", "c", "t", "i", "v", "e", "r">>,
            <<"a", "c", "t", "i", "v", "a", "t", "i", "o", "n">>,
            <<"c", "o", "m", "p", "t", "e">>,
            <<"i", "n", "s", "c", "r", "i", "p", "t", "i", "o", "n">>>>],
       [intent |-> "mot_de_passe_oublie", keywords |-> <<
            <<"m", "o", "t", " ", "d", "e", " ", "p", "a", "s", "s", "e">>,
            <<"o", "u", "b", "l", "i", "e_acute">>,
            <<"r", "e", "s", "e", "t">>,
            <<"r", "e_acute", "i", "n", "i", "t", "i", "a", "l", "i", "s", "e", "r">>>>],
       [intent |-> "mise_a_jour_infos_entreprise", keywords |-> <<
            <<"m", "e", "t", "t", "r", "e", " ", "a_grave", " ", "j", "o", "u", "r">>,
            <<"m", "o", "d", "i", "f", "i", "e", "r">>,
            <<"e", "m", "a", "i", "l">>,
            <<"c", "o", "o", "r", "d", "o", "n", "n", "e_acute", "e", "s">>,
            <<"c", "h", "a", "n", "g", "e", "m", "e", "n", "t">>>>],
       [intent |-> "escalade_support", keywords |-> <<
            <<"p", "r", "o", "b", "l", "e_grave", "m", "e", " ", "c", "o", "m", "p", "l", "e", "x", "e">>,
            <<"s", "u", "p", "p", "o", "r", "t", " ", "t", "e", "c", "h", "n", "i", "q", "u", "e">>,
            <<"b", "l", "o", "q", "u", "e_acute">>,
            <<"b", "u", "g">>>>]
    >>

genericMappingV1 ==
    <<
       [intent |-> "salutation", keywords |-> <<
            <<"b", "o", "n", "j", "o", "u", "r">>,
            <<"s", "a", "l", "u", "t">>,
            <<"h", "e", "l", "l", "o">>,
            <<"h", "i">>>>],
       [intent |-> "remerciement", keywords |-> <<
            <<"m", "e", "r", "c", "i">>,
            <<"t", "h", "a", "n", "k", "s">>>>],
       [intent |-> "au_revoir", keywords |-> <<
            <<"a", "u", " ", "r", "e", "v", "o", "i", "r">>,
            <<"b", "y", "e">>,
            <<"a_grave", " ", "b", "i", "e", "n", "t", "ô", "t">>>>]
    >>

specificMapping ==
    <<
       [intent |-> "activation_compte", keywords |-> <<
            <<"a", "c", "t", "i", "v", "e", "r">>,
            <<"a", "c", "t", "i", "v", "a", "t", "i", "o", "n">>,
            <<"c", "o", "m", "p", "t", "e">>,
            <<"i", "n", "s", "c", "r", "i", "p", "t", "i", "o", "n">>>>],
       [intent |-> "mot_de_passe_oublie", keywords |-> <<
            <<"m", "o", "t", " ", "d", "e", " ", "p", "a", "s", "s", "e">>,
            <<"o", "u", "b", "l", "i", "e_acute">>,
            <<"r", "e", "s", "e", "t">>,
            <<"r", "e_acute", "i", "n", "i", "t", "i", "a", "l", "i", "s", "e", "r">>>>],
       [intent |-> "mise_a_jour_infos_entreprise", keywords |-> <<
            <<"m", "e", "t", "t", "r", "e", " ", "a_grave", " ", "j", "o", "u", "r">>,
            <<"m", "o", "d", "i", "f", "i", "e", "r">>,
            <<"e", "m", "a", "i", "l">>,
            <<"c", "o", "o", "r", "d", "o", "n", "n", "e_acute", "e", "s">>,
            <<"c", "h", "a", "n", "g", "e", "m", "e", "n", "t">>>>],
       [intent |-> "escalade_support", keywords |-> <<
            <<"p", "r", "o", "b", "l", "e_grave", "m", "e", " ", "c", "o", "m", "p", "l", "e", "x", "e">>,
            <<"s", "u", "p", "p", "o", "r", "t", " ", "t", "e", "c", "h", "n", "i", "q", "u", "e">>,
            <<"b", "l", "o", "q", "u", "e_acute">>,
            <<"b", "u", "g">>>>],
       [intent |-> "origine_produit", keywords |-> <<
            <<"o", "r", "i", "g", "i", "n", "e">>,
            <<"f", "a", "b", "r", "i", "q", "u", "e_acute">>,
            <<"p", "r", "o", "v", "e", "n", "a", "n", "c", "e">>,
            <<"m", "a", "d", "e", " ", "i", "n">>>>],
       [intent |-> "personnalisation", keywords |-> <<
            <<"p", "e", "r", "s", "o", "n", "n", "a", "l", "i", "s", "e", "r">>,
            <<"p", "e", "r", "s", "o", "n", "n", "a", "l", "i", "s", "a", "t", "i", "o", "n">>,
            <<"b", "r", "o", "d", "e", "r", "i", "e">>,
            <<"s", "e_acute", "r", "i", "g", "r", "a", "p", "h", "i", "e">>,
            <<"i", "m", "p", "r", "e", "s", "s", "i", "o", "n">>>>],
       [intent |-> "b2b_only", keywords |-> <<
            <<"b", "2", "b">>,
            <<"p", "a", "r", "t", "i", "c", "u", "l", "i", "e", "r">>,
            <<"p", "r", "o", "f", "e", "s", "s", "i", "o", "n", "n", "e", "l">>,
            <<"e", "n", "t", "r", "e", "p", "r", "i", "s", "e">>>>]
    >>

genericMapping ==
    <<
       [intent |-> "salutation", keywords |-> <<
            <<"b", "o", "n", "j", "o", "u", "r">>,
            <<"s", "a", "l", "u", "t">>,
            <<"h", "e", "l", "l", "o">>,
            <<"h", "i">>,
            <<"h", "e", "y">>>>],
       [intent |-> "remerciement", keywords |-> <<
            <<"m", "e", "r", "c", "i">>,
            <<"t", "h", "a", "n", "k", "s">>,
            <<"t", "h", "a", "n", "k", " ", "y", "o", "u">>>>],
       [intent |-> "au_revoir", keywords |-> <<
            <<"a", "u", " ", "r", "e", "v", "o", "i", "r">>,
            <<"b", "y", "e">>,
            <<"a_grave", " ", "b", "i", "e", "n", "t", "ô", "t">>,
            <<"g", "o", "o", "d", "b", "y", "e">>>>]
    >>

productKeywords ==
    <<
        <<"p", "r", "o", "d", "u", "i", "t">>,
        <<"a", "r", "t", "i", "c", "l", "e">>,
        <<"c", "h", "e", "r", "c", "h", "e">>,
        <<"r", "e", "c", "h", "e", "r", "c", "h", "e">>,
        <<"p", "r", "i", "x">>,
        <<"s", "t", "o", "c", "k">>,
        <<"d", "i", "s", "p", "o", "n", "i", "b", "l", "e">>,
        <<"a", "c", "h", "e", "t", "e", "r">>,
        <<"c", "o", "m", "m", "a", "n", "d", "e", "r">>,
        <<"p", "a", "n", "i", "e", "r">>,
        <<"c", "a", "r", "t">>,
        <<"c", "o", "m", "m", "a", "n", "d", "e">>
    >>

Vocabulary ==
    {
        <<"c", "h", "e", "r", "c", "h", "e">>,
        <<"P", "r", "o", "d", "u", "i", "t">>,
        <<"c", "o", "m", "p", "t", "e">>,
        <<"b", "l", "o", "q", "u", "e_acute">>,
        <<"B", "o", "n", "j", "o", "u", "r">>,
        <<"m", "e", "r", "c", "i">>,
        <<"b", "l", "a", "b", "l", "a">>,
        <<"p", "a", "r", "t", "i", "c", "u", "l", "i", "e", "r">>,
        <<"o", "r", "i", "g", "i", "n", "e">>,
        <<"o", "u", "b", "l", "i", "e_acute">>,
        <<"a", "@", "b", ".", "f", "r">>
    }

\* faulty variant: the last entry of the mapping with a keyword in msg wins
firstMatchLatest(mapping, msg) ==
    IF \E i \in 1..Len(mapping) : someIncluded(mapping[i].keywords, msg)
    THEN CHOOSE i \in 1..Len(mapping) :
            /\ someIncluded(mapping[i].keywords, msg)
            /\ \A j \in (i + 1)..Len(mapping) : ~someIncluded(mapping[j].keywords, msg)
    ELSE 0

\* for (const [intent, keywords] of Object.entries(mapping)) if (keywords.some(...)) ...
\* The index of the first entry of the mapping with a keyword in msg, 0 if none.
firstMatch(mapping, msg) ==
    IF \E i \in 1..Len(mapping) : someIncluded(mapping[i].keywords, msg)
    THEN CHOOSE i \in 1..Len(mapping) :
            /\ someIncluded(mapping[i].keywords, msg)
            /\ \A j \in 1..(i - 1) : ~someIncluded(mapping[j].keywords, msg)
    ELSE 0

\* detectIntent of the first copy: specific intents, then generic ones folded to "unknown".
detectIntentV1(message) ==
    LET msg == toLowerCase(message)
        s   == firstMatch(specificMappingV1, msg)
        g   == firstMatch(genericMappingV1, msg)
    IN  IF s > 0 THEN specificMappingV1[s].intent
        ELSE IF g > 0 THEN "unknown"
        ELSE "unknown"

\* detectIntent of the second copy: product keywords first, then specific, then generic.
detectIntentV2(message) ==
    LET msg == toLowerCase(message)
        s   == firstMatch(specificMapping, msg)
        g   == firstMatch(genericMapping, msg)
    IN  IF someIncluded(productKeywords, msg) THEN "unknown"
        ELSE IF s > 0 THEN specificMapping[s].intent
        ELSE IF g > 0 THEN genericMapping[g].intent
        ELSE "unknown"

\* The detectIntent method of the manager instance the process has loaded.
detectIntent(version, message) ==
    IF version = 1 THEN detectIntentV1(message) ELSE detectIntentV2(message)

(***************************************************************************)
(* Messages: one to MaxWords words of the vocabulary, separated by blanks. *)
(***************************************************************************)
RECURSIVE Join(_)
Join(ws) ==
    IF Len(ws) = 0 THEN <<>>
    ELSE IF Len(ws) = 1 THEN ws[1]
    ELSE ws[1] \o <<" ">> \o Join(Tail(ws))

WordSeqs(n) == UNION {[1..k -> Vocabulary] : k \in 1..n}

Messages == {Join(ws) : ws \in WordSeqs(MaxWords)}

(***************************************************************************)
(* The e-mail extraction of the deterministic path:                        *)
(* userMessage.match(/[\w.-]+@[\w.-]+\.[A-Za-z]{2,}/).                     *)
(***************************************************************************)
Letters ==
    {"a", "b", "c", "d", "e", "f", "g", "h", "i", "j", "k", "l", "m", "n", "o", "p", "q",
     "r", "s", "t", "u", "v", "w", "x", "y", "z"} \cup
    {"A", "B", "C", "D", "E", "F", "G", "H", "I", "J", "K", "L", "M", "N", "O", "P", "Q",
     "R", "S", "T", "U", "V", "W", "X", "Y", "Z"}

EmailChars == Letters \cup {"0", "1", "2", "3", "4", "5", "6", "7", "8", "9", "_", ".", "-"}

hasEmail(message) ==
    \E at \in 2..Len(message) :
        /\ message[at] = "@"
        /\ message[at - 1] \in EmailChars
        /\ \E dot \in (at + 2)..(Len(message) - 2) :
              /\ message[dot] = "."
              /\ \A i \in (at + 1)..(dot - 1) : message[i] \in EmailChars
              /\ message[dot + 1] \in Letters
              /\ message[dot + 2] \in Letters

(***************************************************************************)
(* checkVadfCustomerAccount.  A session row is modelled by the four fields *)
(* the function reads; NoUser is findFirst returning null.                 *)
(***************************************************************************)
Tri == {"true", "false", "null"}

NoUser == [found |-> FALSE]

Users ==
    {NoUser} \cup
    [found : {TRUE}, accountOwner : BOOLEAN, scopeB2B : BOOLEAN,
     emailVerified : Tri, isOnline : Tri]

MsgNotFound == <<"Compte introuvable">>
MsgNotPro   == <<"VADF travaille exclusivement avec les professionnels">>
MsgActive   == <<"Compte actif">>
MsgInactive == <<"Votre compte est enregistre mais non active">>
MsgPending  == <<"relancer la demande">>
MsgUnknown  == <<"Statut du compte inconnu">>

\* email: whether an e-mail was extracted; user: what findFirst returns for it.
checkVadfCustomerAccount(email, user) ==
    IF ~email \/ ~user.found
    THEN [status |-> "not_found", message |-> MsgNotFound, contact |-> Null]
    ELSE IF ~(user.accountOwner \/ user.scopeB2B)
    THEN [status |-> "not_pro", message |-> MsgNotPro, contact |-> "contact@vadf.fr"]
    ELSE IF user.emailVerified = "true" \/ user.isOnline = "true"
    THEN [status |-> "active", message |-> MsgActive, contact |-> Null]
    ELSE IF user.emailVerified = "false" \/ user.isOnline = "false"
    THEN [status |-> "inactive", message |-> MsgInactive, contact |-> Null]
    ELSE IF user.accountOwner
    THEN [status |-> "pro_pending", message |-> MsgPending, contact |-> Null]
    ELSE [status |-> "unknown", message |-> MsgUnknown, contact |-> Null]

(***************************************************************************)
(* The rule set and getResponse.                                           *)
(*                                                                         *)
(* A template text is a sequence of parts: [lit |-> string] for literal    *)
(* text, [var |-> name] for a {{name}} placeholder.  A condition is the list of  *)
(* pieces cond.split(/\s*==\s*/) yields: "compte_actif == true" is         *)
(* <<"compte_actif", "true">>.  A context is a function from variable      *)
(* names to the string form of their values.                               *)
(***************************************************************************)
Ellipsis == "..."

ErrorPhrase   == <<"Une erreur est survenue">>
SupportPhrase == <<"Contactez le support">>

Tpl(conds, text) == [conditions |-> conds, text |-> text]

Lit(s) == [lit |-> s]

Var(name) == [var |-> name]

ActivationConditioned ==
    << Tpl(<< <<"compte_actif", "true">> >>, <<Lit("Votre compte est active")>>),
       Tpl(<< <<"compte_actif", "false">> >>, <<Lit("Compte non active")>>),
       Tpl(<< <<"email_renvoye", "true">> >>, <<Lit("Email renvoye a "), Var("email")>>) >>

ActivationWithFallback ==
    ActivationConditioned \o << Tpl(<<>>, <<Lit("Activation de compte")>>) >>

CommonIntents ==
    [ mot_de_passe_oublie |-> << Tpl(<<>>, <<Lit("Lien pour reinitialiser")>>) >>,
      mise_a_jour_infos_entreprise |->
          << Tpl(<< <<"compte_actif", "true">> >>, <<Lit("Modifiez vos informations")>>) >>,
      escalade_support |-> << Tpl(<<>>, <<Lit("Ecrivez a contact@vadf.fr")>>) >>,
      salutation |-> << Tpl(<<>>, <<Lit("Bonjour "), Var("prenom")>>) >> ]

RuleSetOf(activation) ==
    [ intents |-> CommonIntents @@ [activation_compte |-> activation],
      common_phrases |-> [error |-> ErrorPhrase, contact_support |-> SupportPhrase],
      context |-> [support |-> "contact@vadf.fr"] ]

\* The rule sets a process may have loaded from vadf_reponses.json.
RuleSets == {RuleSetOf(ActivationConditioned), RuleSetOf(ActivationWithFallback)}

\* the characters \w matches, among those of the template texts of the model
WordChars == {"a", "b"}

\* the length of the longest run of \w characters that starts at position i
wordRun(chars, i) ==
    LET runs == {n \in 0..(Len(chars) - i + 1) :
                    \A k \in i..(i + n - 1) : chars[k] \in WordChars}
    IN  CHOOSE n \in runs : \A m \in runs : m <= n

\* /\{\{(\w+)\}\}/ tried at position i: the length of the captured name, 0
\* when the expression does not match there
nameLengthAt(chars, i) ==
    IF /\ i + 1 <= Len(chars)
       /\ chars[i] = "{"
       /\ chars[i + 1] = "{"
    THEN LET n == wordRun(chars, i + 2)
         IN  IF /\ n >= 1
                /\ i + n + 3 <= Len(chars)
                /\ chars[i + n + 2] = "}"
                /\ chars[i + n + 3] = "}"
             THEN n
             ELSE 0
    ELSE 0

RECURSIVE matchFrom(_, _)
\* the g flag: matches are looked for from left to right, each search starting
\* where the last match ended; a character that starts no match is kept
matchFrom(chars, i) ==
    IF i > Len(chars) THEN <<>>
    ELSE LET n == nameLengthAt(chars, i)
         IN  IF n > 0
             THEN <<Var(SubSeq(chars, i + 2, i + n + 1))>> \o matchFrom(chars, i + n + 4)
             ELSE <<Lit(chars[i])>> \o matchFrom(chars, i + 1)

\* the pieces text.replace(/\{\{(\w+)\}\}/g, ...) cuts a text into
matchPlaceholders(chars) == matchFrom(chars, 1)

\* faulty variant: (m, v) => context[v], without the ?? fallback
replaceVarsWithoutFallback(text, context) ==
    [i \in 1..Len(text) |->
        IF "lit" \in DOMAIN text[i] THEN text[i].lit
        ELSE IF text[i].var \in DOMAIN context THEN context[text[i].var]
        ELSE Undefined]

\* text.replace(/\{\{(\w+)\}\}/g, (m, v) => context[v] ?? "...")
\* ?? takes the right operand when context[v] is undefined or null.
replaceVars(text, context) ==
    [i \in 1..Len(text) |->
        IF "lit" \in DOMAIN text[i] THEN text[i].lit
        ELSE IF text[i].var \in DOMAIN context /\ context[text[i].var] # Null
             THEN context[text[i].var]
             ELSE Ellipsis]

\* const [varName, op, val] = cond.split(/\s*==\s*/);
\* if (context[varName] == null || String(context[varName]) !== val) ok = false
\* val is the THIRD piece of the split, undefined when the split has fewer pieces.
conditionHolds(cond, context) ==
    /\ Len(cond) >= 1
    /\ cond[1] \in DOMAIN context
    /\ Len(cond) >= 3
    /\ context[cond[1]] = cond[3]

templateMatches(resp, context) ==
    \A c \in 1..Len(resp.conditions) : conditionHolds(resp.conditions[c], context)

\* faulty variant: when no template matches, the first template is returned
getResponseFirstTemplate(responses, intent, context) ==
    IF intent \notin DOMAIN responses.intents
    THEN [text |-> responses.common_phrases.error, type |-> "error"]
    ELSE LET tpls == responses.intents[intent]
         IN  IF \E i \in 1..Len(tpls) : templateMatches(tpls[i], context)
             THEN LET i == CHOOSE k \in 1..Len(tpls) :
                              /\ templateMatches(tpls[k], context)
                              /\ \A j \in 1..(k - 1) : ~templateMatches(tpls[j], context)
                  IN  [text |-> replaceVars(tpls[i].text, context), type |-> intent]
             ELSE [text |-> replaceVars(tpls[1].text, context), type |-> intent]

getResponse(responses, intent, context) ==
    IF intent \notin DOMAIN responses.intents
    THEN [text |-> responses.common_phrases.error, type |-> "error"]
    ELSE LET tpls == responses.intents[intent]
         IN  IF \E i \in 1..Len(tpls) : templateMatches(tpls[i], context)
             THEN LET i == CHOOSE k \in 1..Len(tpls) :
                              /\ templateMatches(tpls[k], context)
                              /\ \A j \in 1..(k - 1) : ~templateMatches(tpls[j], context)
                  IN  [text |-> replaceVars(tpls[i].text, context), type |-> intent]
             ELSE [text |-> responses.common_phrases.error, type |-> "error"]

\* { ...this.responses.context, ...ctx }, the right operand winning
enrichContext(responses, ctx) == ctx @@ responses.context

getCommonPhrase(responses, key) ==
    IF key \in DOMAIN responses.common_phrases THEN responses.common_phrases[key] ELSE <<>>

(***************************************************************************)
(* Stream events, history messages and store rows.                         *)
(***************************************************************************)
Ev(type, data) == [type |-> type, data |-> data]

Types(evs) == [i \in 1..Len(evs) |-> evs[i].type]

Count(evs, t) == Cardinality({i \in 1..Len(evs) : evs[i].type = t})

Msg(role, content) == [role |-> role, content |-> content]

TextContent(text) == [kind |-> "text", text |-> text]

BlocksContent(blocks) == [kind |-> "blocks", blocks |-> blocks]

\* JSON.stringify(content), as handed to saveMessage
jsonStringify(content) == [json |-> content]

\* A string is either [json |-> v], the text JSON.stringify made of v, or
\* [raw |-> chars], a text given by its characters.
Digits == {"0", "1", "2", "3", "4", "5", "6", "7", "8", "9"}

\* the texts JSON.parse accepts among the raw texts: integers, true, false, null
isJsonLiteral(chars) ==
    \/ /\ Len(chars) >= 1
       /\ \A i \in 1..Len(chars) : chars[i] \in Digits
       /\ (Len(chars) > 1 => chars[1] # "0")
    \/ chars \in {<<"t", "r", "u", "e">>, <<"f", "a", "l", "s", "e">>, <<"n", "u", "l", "l">>}

\* the number, boolean or null a literal text stands for
JsonLiteral(chars) == [kind |-> "literal", text |-> chars]

\* JSON.parse(str): the value, or a SyntaxError
jsonParse(str) ==
    IF "json" \in DOMAIN str THEN [threw |-> FALSE, value |-> str.json]
    ELSE IF isJsonLiteral(str.raw) THEN [threw |-> FALSE, value |-> JsonLiteral(str.raw)]
    ELSE [threw |-> TRUE]

\* dbMessages.map: try { content = JSON.parse(row.content) } catch { content = row.content }
decodeRow(row) ==
    LET parsed == jsonParse(row.content)
    IN  Msg(row.role, IF parsed.threw THEN TextContent(row.content.raw) ELSE parsed.value)

decodeHistory(rows) == [i \in 1..Len(rows) |-> decodeRow(rows[i])]

\* saveMessage(conversationId, role, content): one more row of the conversation
saveMessage(rows, role, content) == Append(rows, [role |-> role, content |-> content])

\* saveMessage(...).catch(log) of onMessage: a rejected save leaves the rows as they were
saveMessageLogged(rows, role, content, saved) ==
    IF saved THEN saveMessage(rows, role, content) ELSE rows

(***************************************************************************)
(* Tool service.                                                           *)
(***************************************************************************)
productSearchName == "search_shop_catalog"
getProductDetailsName == "get_product_details"

ToolNames == {productSearchName, getProductDetailsName}

\* the object {}
EmptyObject == [f \in {} |-> Null]

\* obj[field] of a field holding a string
get(obj, field) == IF field \in DOMAIN obj THEN obj[field] ELSE Undefined

\* a || b for strings
orElse(a, b) == IF a = Undefined \/ a = "" THEN b ELSE a

\* `${a} ${b}`
priceText(a, b) == <<a, " ", b>>

PriceNotAvailable == <<"Price not available">>

\* faulty variant: the first variant is looked at before the price range
priceOfVariantFirst(product) ==
    IF "variants" \in DOMAIN product /\ Len(product.variants) > 0
    THEN priceText(get(product.variants[1], "currency"), get(product.variants[1], "price"))
    ELSE IF "price_range" \in DOMAIN product
    THEN priceText(get(product.price_range, "currency"), get(product.price_range, "min"))
    ELSE PriceNotAvailable

\* const price = product.price_range ? ... : product.variants && length > 0 ? ... : fallback
priceOf(product) ==
    IF "price_range" \in DOMAIN product
    THEN priceText(get(product.price_range, "currency"), get(product.price_range, "min"))
    ELSE IF "variants" \in DOMAIN product /\ Len(product.variants) > 0
    THEN priceText(get(product.variants[1], "currency"), get(product.variants[1], "price"))
    ELSE PriceNotAvailable

\* formatProductData(product); random is `product-${Math.random()...}` of this call
formatProductData(product, random) ==
    [id           |-> orElse(get(product, "product_id"), random),
     title        |-> orElse(get(product, "title"), "Product"),
     price        |-> priceOf(product),
     image_url    |-> orElse(get(product, "image_url"), ""),
     description  |-> orElse(get(product, "description"), ""),
     url          |-> orElse(get(product, "url"), ""),
     embedded_url |-> orElse(get(product, "embedded_url"), "")]

\* AppConfig.tools.maxProductsToDisplay
maxProductsToDisplay == 2

\* what Math.random can contribute to an id
RandomIds == {"product-k3x9", "product-7qzd"}

Min(a, b) == IF a < b THEN a ELSE b

\* the text of the first content item as data: typeof object, or JSON.parse of a string
responseDataOf(response) ==
    IF "content" \in DOMAIN response /\ Len(response.content) > 0
    THEN LET content == response.content[1].text
         IN  IF "object" \in DOMAIN content
             THEN [threw |-> FALSE, value |-> content.object]
             ELSE jsonParse(content)
    ELSE [threw |-> TRUE]

\* responseData.products, when it is an array; the empty array otherwise
productsIn(response) ==
    LET data == responseDataOf(response)
    IN  IF ~data.threw /\ "products" \in DOMAIN data.value THEN data.value.products ELSE <<>>

\* the Math.random results of one call: one for each product without an id
RandomsFor(products) ==
    [{i \in 1..Len(products) : orElse(get(products[i], "product_id"), Undefined) = Undefined}
        -> RandomIds]

\* faulty variant: the products are not cut to the display cap
processProductSearchResultUncapped(response, randoms) ==
    LET products == productsIn(response)
    IN  [i \in 1..Len(products) |->
            formatProductData(products[i],
                              IF i \in DOMAIN randoms THEN randoms[i] ELSE Undefined)]

\* processProductSearchResult: slice(0, maxProductsToDisplay).map(formatProductData),
\* the empty array when the text is not JSON or holds no products array
processProductSearchResult(response, randoms) ==
    LET products == productsIn(response)
    IN  [i \in 1..Min(Len(products), maxProductsToDisplay) |->
            formatProductData(products[i],
                              IF i \in DOMAIN randoms THEN randoms[i] ELSE Undefined)]

\* faulty variant: a text that is not JSON is handed on as it is
processToolResponseAsJsonRaw(response) ==
    LET data == responseDataOf(response)
    IN  IF data.threw THEN response ELSE data.value

\* processToolResponseAsJson: the data, or {} when there is none or the text is not JSON
processToolResponseAsJson(response) ==
    LET data == responseDataOf(response)
    IN  IF data.threw THEN EmptyObject ELSE data.value

\* the products of the shop, in the order a search returns them
Catalog ==
    << [product_id |-> "gid-1", title |-> "Carton", price_range |-> [currency |-> "EUR", min |-> "10"]],
       [product_id |-> "gid-2", title |-> "Ruban", variants |-> <<[currency |-> "EUR", price |-> "3"]>>],
       [product_id |-> "gid-3", title |-> "Film"],
       [product_id |-> "gid-4", url |-> "https://vadf.fr/p/4"],
       [product_id |-> "gid-5", title |-> "Papier", image_url |-> "https://vadf.fr/i/5"] >>

\* a search that finds more products than are displayed
SearchHits == SubSeq(Catalog, 1, maxProductsToDisplay + 1)

textItem(text) == [type |-> "text", text |-> text]

\* What mcpClient.callTool / an mcp_tool_result block can carry:
\*   "products"      content[0].text is JSON with a products array
\*   "embedded"      content[0].text is JSON with product.embedded_url
\*   "malformed"     content[0].text is not JSON
\*   "auth_required" error of type auth_required
\*   "error"         any other error
ToolOutcomes == {"products", "embedded", "malformed", "auth_required", "error"}

isToolError(outcome) == outcome \in {"auth_required", "error"}

\* the response object of each outcome
toolUseResponseOf(outcome) ==
    IF outcome = "products"
    THEN [content |-> <<textItem(jsonStringify([products |-> SearchHits]))>>]
    ELSE IF outcome = "embedded"
    THEN [content |-> <<textItem(jsonStringify(
                          [product |-> [embedded_url |-> "https://vadf.fr/e/1"]]))>>]
    ELSE IF outcome = "malformed"
    THEN [content |-> <<textItem([raw |-> <<"<", "h", "t", "m", "l", ">">>])>>]
    ELSE [error |-> [type |-> outcome, data |-> outcome]]

toolResultMessage(toolUseId, outcome) ==
    Msg("user", BlocksContent(<<[type |-> "tool_result", tool_use_id |-> toolUseId,
                                 content |-> outcome]>>))

\* faulty variant: the message is pushed only once it has been saved
addToolResultToHistoryAfterSave(st, toolUseId, outcome, hasConversationId, saved) ==
    IF hasConversationId /\ ~saved THEN st
    ELSE [st EXCEPT !.history = Append(@, toolResultMessage(toolUseId, outcome)),
                    !.db = IF hasConversationId
                           THEN saveMessage(@, "user",
                                    jsonStringify(toolResultMessage(toolUseId, outcome).content))
                           ELSE @]

\* addToolResultToHistory: push to the in-memory history; save only if (conversationId);
\* a rejected save is caught and logged
addToolResultToHistory(st, toolUseId, outcome, hasConversationId, saved) ==
    [st EXCEPT !.history = Append(@, toolResultMessage(toolUseId, outcome)),
               !.db = IF hasConversationId /\ saved
                      THEN saveMessage(@, "user",
                               jsonStringify(toolResultMessage(toolUseId, outcome).content))
                      ELSE @]

\* faulty variant: every tool error is announced as an authorization request
toolErrorEventsForAnyError(outcome) == <<Ev("auth_required", Null)>>

\* sendMessage({ type: "auth_required" }) of handleToolError
toolErrorEvents(outcome) ==
    IF outcome = "auth_required" THEN <<Ev("auth_required", Null)>> ELSE <<>>

\* handleToolError(toolUseResponse, toolName, toolUseId, history, sendMessage, conversationId)
handleToolError(st, toolUseId, outcome, saved) ==
    [addToolResultToHistory(st, toolUseId, outcome, TRUE, saved)
        EXCEPT !.events = @ \o toolErrorEvents(outcome)]

\* responseEmbeddedUrls.push(...) with the sixth argument of the call of the route,
\* which is the conversation id, a string: a TypeError
embeddedUrlPushThrows(toolName, responseData) ==
    /\ toolName = getProductDetailsName
    /\ "product" \in DOMAIN responseData
    /\ orElse(get(responseData.product, "embedded_url"), Undefined) # Undefined

\* handleToolSuccess as the route calls it, with six arguments for seven parameters:
\* responseEmbeddedUrls is bound to the conversation id and conversationId is undefined.
handleToolSuccess(st, toolName, toolUseId, outcome, toolResponse, randoms) ==
    LET pushed == [st EXCEPT !.products =
                        IF toolName = productSearchName
                        THEN @ \o processProductSearchResult(toolResponse, randoms) ELSE @]
    IN  IF embeddedUrlPushThrows(toolName, processToolResponseAsJson(toolResponse))
        THEN [pushed EXCEPT !.thrown = TRUE]
        ELSE addToolResultToHistory(pushed, toolUseId, outcome, FALSE, TRUE)

(***************************************************************************)
(* The deterministic (VADF) branch of handleChatSession, route A.          *)
(***************************************************************************)
\* accountCheckResult = null: no account check was made
NoAccountCheck == [status |-> "none", message |-> <<>>, contact |-> Null]

AccountIntents == {"activation_compte", "mot_de_passe_oublie", "mise_a_jour_infos_entreprise"}

\* faulty variant: the prompt type is compared with a tag no request carries
isVadfRequestWrongTag(v, pt) == v = "A" /\ pt = "vadf"

\* promptType === 'vadfAssistant'
isVadfRequest(v, pt) == v = "A" /\ pt = "vadfAssistant"

\* the context after the account check
vadfContextOf(responses, isFirstMessage, acct) ==
    LET base == enrichContext(responses,
                    [isFirstMessage |-> IF isFirstMessage THEN "true" ELSE "false"])
    IN  IF acct.status = "none" THEN base
        ELSE IF acct.status = "active" THEN [compte_actif |-> "true"] @@ base
        ELSE IF acct.status = "inactive" THEN [compte_actif |-> "false"] @@ base
        ELSE base

\* faulty variant: the message of the account check is not taken over
vadfResponseOfTemplate(responses, intent, context, acct) ==
    getResponse(responses, intent, context)

\* the response after the override by the message of the account check
vadfResponseOf(responses, intent, context, acct) ==
    LET r == getResponse(responses, intent, context)
    IN  IF acct.status # "none" /\ acct.message # <<>> THEN [r EXCEPT !.text = acct.message] ELSE r

\* faulty variant: no escalation for the account that is not a professional one
vadfEventsWithoutAutomaticEscalation(responses, intent, resp, acct) ==
    <<Ev("vadf_response", [text |-> resp.text, vadf_intent |-> intent, vadf_type |-> resp.type])>>
    \o (IF intent = "escalade_support" \/ resp.type = "error"
        THEN <<Ev("escalade", [contact |-> "contact@vadf.fr",
                               message |-> getCommonPhrase(responses, "contact_support")])>>
        ELSE <<>>)
    \o <<Ev("end_turn", Null)>>

\* the sendMessage calls of the branch, lines 213-236
vadfEvents(responses, intent, resp, acct) ==
    <<Ev("vadf_response", [text |-> resp.text, vadf_intent |-> intent, vadf_type |-> resp.type])>>
    \o (IF acct.status # "none" /\ acct.status = "not_pro"
        THEN <<Ev("escalade", [contact |-> acct.contact,
                               message |-> <<"Escalade automatique : utilisateur non professionnel.">>])>>
        ELSE <<>>)
    \o (IF intent = "escalade_support" \/ resp.type = "error"
        THEN <<Ev("escalade", [contact |-> "contact@vadf.fr",
                               message |-> getCommonPhrase(responses, "contact_support")])>>
        ELSE <<>>)
    \o <<Ev("end_turn", Null)>>

(***************************************************************************)
(* The model loop of handleChatSession and streamConversation.             *)
(***************************************************************************)
\* the exit test of the while loop of each route
\* faulty variant: both routes leave the loop on end_turn only
loopExitsOnEndTurnOnly(v, stopReason) == stopReason = "end_turn"

loopExits(v, stopReason) ==
    IF v = "A" THEN stopReason = "end_turn"
    ELSE stopReason = "end_turn" \/ stopReason = "auth_required"

\* faulty variant: end_turn is sent only when there are no products to send
endTurnEventsEitherOr(products) ==
    IF Len(products) > 0 THEN <<Ev("product_results", products)>>
    ELSE <<Ev("end_turn", Null)>>

\* faulty variant: one product_results event for each product
endTurnEventsPerProduct(products) ==
    <<Ev("end_turn", Null)>>
    \o [i \in 1..Len(products) |-> Ev("product_results", <<products[i]>>)]

\* stream.sendMessage({type:'end_turn'}); if (productsToDisplay.length > 0) product_results
endTurnEvents(products) ==
    <<Ev("end_turn", Null)>>
    \o (IF Len(products) > 0 THEN <<Ev("product_results", products)>> ELSE <<>>)

\* faulty variant: the test of the token is inverted
needsAuthorizationInverted(token) == token # Null

\* if (!customerAccessToken) of streamConversation, route B
needsAuthorization(token) == token = Null

AuthLinkText == <<"You need to authorize the app to access your customer data.">>

\* tool-use requests of the turn so far (their ids are 1, 2, ... in order of request)
RECURSIVE toolUsesIn(_)
toolUsesIn(history) ==
    IF Len(history) = 0 THEN 0
    ELSE toolUsesIn(Tail(history)) +
         (IF history[1].role = "assistant" /\ history[1].content.kind = "blocks"
          THEN Cardinality({i \in 1..Len(history[1].content.blocks) :
                   history[1].content.blocks[i].type \in {"tool_use", "mcp_tool_result"}})
          ELSE 0)

\* What the model can answer on route A: text alone, or text and tool-use requests
\* for discovered tools.
ModelResponsesA(tools, budget) ==
    {[tools |-> <<>>, stop_reason |-> s] : s \in {"end_turn", "max_tokens"}}
    \cup {[tools |-> ts, stop_reason |-> "tool_use"] :
             ts \in UNION {[1..k -> tools] : k \in 1..budget}}

\* What the model can answer on route B: text and the results of the tools the
\* connector ran on the server side.
ModelResponsesB(budget) ==
    {[results |-> rs, stop_reason |-> s] :
        rs \in UNION {[1..k -> ToolOutcomes \ {"auth_required", "error"}] : k \in 0..budget},
        s \in {"end_turn", "pause_turn"}}

assistantBlocksA(r, firstId) ==
    <<[type |-> "text"]>>
    \o [i \in 1..Len(r.tools) |-> [type |-> "tool_use", id |-> firstId + i, name |-> r.tools[i]]]

assistantBlocksB(r) ==
    <<[type |-> "text"]>>
    \o [i \in 1..Len(r.results) |-> [type |-> "mcp_tool_result", content |-> r.results[i]]]

\* for (const content of finalMessage.content) if (content.type === "mcp_tool_result")
\*   productsToDisplay.push(...processProductSearchResult(content))
\* (every product of the catalog has an id, so Math.random is not called)
RECURSIVE productsOfResults(_)
productsOfResults(blocks) ==
    IF Len(blocks) = 0 THEN <<>>
    ELSE (IF blocks[1].type = "mcp_tool_result"
          THEN processProductSearchResult(toolUseResponseOf(blocks[1].content), <<>>)
          ELSE <<>>)
         \o productsOfResults(Tail(blocks))

\* for (const content of finalMessage.content) if (content.type === "tool_use"):
\* the index of the first tool_use block at or after from, Len + 1 if none
nextToolUse(blocks, from) ==
    IF \E i \in from..Len(blocks) : blocks[i].type = "tool_use"
    THEN CHOOSE i \in from..Len(blocks) :
            /\ blocks[i].type = "tool_use"
            /\ \A j \in from..(i - 1) : blocks[j].type # "tool_use"
    ELSE Len(blocks) + 1

(***************************************************************************)
(* Inputs of a session.                                                    *)
(***************************************************************************)
PromptTypes == {"vadfAssistant", "standardAssistant"}

\* getVadfManager: the instance after a successful load, for either copy of the class
LoadedManagers == [loaded : {TRUE}, version : {1, 2}, responses : RuleSets]

NotLoaded == [loaded |-> FALSE]

\* no request has called getVadfManager
\* the requests in progress
Requests == 1..MaxRequests

\* the conversations of the requests
ConversationIds == {"c1", "c2"}

\* no conversation has a customer account URL in the store
NoUrls == [c \in ConversationIds |-> Null]

NoResolutions == [r \in {} |-> NotLoaded]

NoCallers == [r \in {} |-> NotLoaded]

\* no concurrent session
NoSessions == [r \in {} |-> NotLoaded]

\* the session is looked at from handleChatSession on
NoRequest == [route |-> "none"]

\* no handler has returned
NoHttpResponse == [status |-> 0]

\* The model loop stores and forwards the message without reading it.
ModelPathMessages == {Join(<<w>>) : w \in {<<"c", "h", "e", "r", "c", "h", "e">>,
                                           <<"b", "l", "a", "b", "l", "a">>}}

\* rows of an earlier turn of the conversation
PriorTurn ==
    << [role |-> "user", content |-> [raw |-> <<"b", "l", "a", "b", "l", "a">>]],
       [role |-> "assistant", content |-> jsonStringify(BlocksContent(<<[type |-> "text"]>>))] >>

PriorStores == {<<>>, PriorTurn}

\* before the deterministic branch has run: no context, no response
NoContext == [none |-> TRUE]

NoResponse == [text |-> <<>>, type |-> Null]

\* before any tool was called
NoToolUseResponse == [none |-> TRUE]

\* finalMessage = { role: 'user', content: userMessage }: no stop_reason yet
InitialFinalMessage == [content |-> <<>>, stop_reason |-> Null]

Init ==
    /\ variant \in {"A", "B"}
    /\ promptType \in PromptTypes
    /\ userMessage \in (IF isVadfRequest(variant, promptType) THEN Messages
                        ELSE ModelPathMessages)
    /\ customerAccessToken \in (IF variant = "B" THEN {Null, "token"} ELSE {Null})
    /\ db \in PriorStores
    /\ vadfManager = NotLoaded
    /\ pc = "start"
    /\ events = <<>>
    /\ conversationHistory = <<>>
    /\ productsToDisplay = <<>>
    /\ finalMessage = InitialFinalMessage
    /\ toolIdx = 0
    /\ vadfIntent = Null
    /\ modelCalls = 0
    /\ toolCalls = <<>>
    /\ mcpTools = {}
    /\ vadfContext = NoContext
    /\ vadfResponse = NoResponse
    /\ toolUseResponse = NoToolUseResponse
    /\ accountCheckResult = NoAccountCheck
    /\ resolutions = NoResolutions
    /\ customerAccountUrls = NoUrls
    /\ httpResponse = NoHttpResponse
    /\ httpRequest = NoRequest
    /\ sessions = NoSessions
    /\ deltas = <<>>
    /\ connected = TRUE
    /\ error = Null
    /\ calls = <<>>
    /\ callers = NoCallers

(***************************************************************************)
(* handleChatSession, up to the choice of the strategy.                    *)
(***************************************************************************)
\* faulty variant: the catch block swallows the error and the step is tried again
sessionCatchRetrying(position) == position

\* lines 317-319 / 635-638: catch (error) { throw error; }: the error leaves
\* handleChatSession, whatever the position it was thrown at
sessionCatch(position) == "failed"

\* lines 154-155: both connections made, or the first one that was rejected
DiscoveryOutcomes == {"connected", "storefront_failed", "customer_failed"}

\* mcpClient.tools after discovery
discoveredTools(outcome) == IF outcome = "connected" THEN ToolNames ELSE {}

\* faulty variant: a rejected connection is thrown out of the session
afterDiscoveryRethrown(outcome) == IF outcome = "connected" THEN "save_user" ELSE "failed"

\* try { connect ... } catch (error) { console.warn(...) }: the session goes on
afterDiscovery(outcome) == "save_user"

\* lines 149-160: send the id, then connect to the tool servers; a failed
\* connection leaves the tool set empty.  Route B discovers nothing itself.
StartSession ==
    /\ pc = "start"
    /\ events' = Append(events, Ev("id", "conversation"))
    /\ \E outcome \in (IF variant = "A" THEN DiscoveryOutcomes ELSE {"connected"}) :
          /\ mcpTools' = IF variant = "A" THEN discoveredTools(outcome) ELSE {}
          /\ pc' = afterDiscovery(outcome)
    /\ UNCHANGED <<accountCheckResult, resolutions, customerAccountUrls, httpResponse,
                   httpRequest, sessions, deltas, connected, error, calls, callers,
                   vadfContext, vadfResponse, toolUseResponse, variant, vadfManager,
                   promptType, userMessage, customerAccessToken, conversationHistory, db,
                   productsToDisplay, finalMessage, toolIdx, vadfIntent, modelCalls,
                   toolCalls>>

\* faulty variant: the history is loaded before the user message is saved
LoadHistoryBeforeSave ==
    /\ pc = "save_user"
    /\ db' = saveMessage(db, "user", [raw |-> userMessage])
    /\ conversationHistory' = decodeHistory(db)
    /\ pc' = IF isVadfRequest(variant, promptType) THEN "vadf" ELSE "loop"
    /\ UNCHANGED <<accountCheckResult, resolutions, customerAccountUrls, httpResponse,
                   httpRequest, sessions, deltas, connected, error, calls, callers,
                   vadfContext, vadfResponse, toolUseResponse, variant, vadfManager,
                   promptType, userMessage, customerAccessToken, events, productsToDisplay,
                   finalMessage, toolIdx, vadfIntent, modelCalls, toolCalls, mcpTools>>

\* lines 166-180 / 549-567: save the user message, load and decode the history
LoadHistory ==
    /\ pc = "save_user"
    /\ db' = saveMessage(db, "user", [raw |-> userMessage])
    /\ conversationHistory' = decodeHistory(db')
    /\ pc' = IF isVadfRequest(variant, promptType) THEN "vadf" ELSE "loop"
    /\ UNCHANGED <<accountCheckResult, resolutions, customerAccountUrls, httpResponse,
                   httpRequest, sessions, deltas, connected, error, calls, callers,
                   vadfContext, vadfResponse, toolUseResponse, variant, vadfManager,
                   promptType, userMessage, customerAccessToken, events, productsToDisplay,
                   finalMessage, toolIdx, vadfIntent, modelCalls, toolCalls, mcpTools>>

\* the awaited saveMessage or getConversationHistory rejects: the session throws
StoreFails ==
    /\ pc = "save_user"
    /\ pc' = sessionCatch(pc)
    /\ error' = "store"
    /\ UNCHANGED <<accountCheckResult, resolutions, customerAccountUrls, httpResponse,
                   httpRequest, sessions, deltas, connected, calls, callers, vadfContext,
                   vadfResponse, toolUseResponse, variant, vadfManager, promptType,
                   userMessage, customerAccessToken, events, conversationHistory, db,
                   productsToDisplay, finalMessage, toolIdx, vadfIntent, modelCalls, toolCalls,
                   mcpTools>>

(***************************************************************************)
(* Route A, lines 183-238: the deterministic branch.                       *)
(***************************************************************************)
VadfTurn ==
    /\ pc = "vadf"
    /\ \E mgr \in LoadedManagers, user \in Users :
          LET intent == detectIntent(mgr.version, userMessage)
              acct   == IF intent \in AccountIntents
                        THEN checkVadfCustomerAccount(hasEmail(userMessage), user)
                        ELSE NoAccountCheck
              ctx    == vadfContextOf(mgr.responses, Len(conversationHistory) <= 1, acct)
              resp   == vadfResponseOf(mgr.responses, intent, ctx, acct)
          IN  \* findFirst is called only for an account intent with an e-mail
              /\ (intent \in AccountIntents /\ hasEmail(userMessage)) \/ user = NoUser
              /\ vadfManager' = mgr
              /\ vadfIntent' = intent
              /\ vadfContext' = ctx
              /\ vadfResponse' = resp
              /\ accountCheckResult' = acct
              /\ events' = events \o vadfEvents(mgr.responses, intent, resp, acct)
    /\ pc' = "done"
    /\ UNCHANGED <<resolutions, customerAccountUrls, httpResponse, httpRequest, sessions,
                   deltas, connected, error, calls, callers, toolUseResponse, variant,
                   promptType, userMessage, customerAccessToken, conversationHistory, db,
                   productsToDisplay, finalMessage, toolIdx, modelCalls, toolCalls, mcpTools>>

(***************************************************************************)
(* The model loop.                                                         *)
(***************************************************************************)
\* faulty variant: the chunks of one model call are sent latest first
chunkEventsLatestFirst(textDeltas) ==
    [i \in 1..Len(textDeltas) |-> Ev("chunk", textDeltas[Len(textDeltas) + 1 - i])]

\* stream.on('text', onText), onText: (textDelta) => stream.sendMessage({ type:
\* 'chunk', chunk: textDelta }): one chunk event per delta, sent when it arrives
chunkEvents(textDeltas) ==
    [i \in 1..Len(textDeltas) |-> Ev("chunk", textDeltas[i])]

\* Route A: one streamConversation call up to stream.finalMessage(): the text
\* delta, the text block and the complete message reach the handlers in that order.
CallModelAStream(saved, textDeltas) ==
    /\ pc = "loop" /\ variant = "A"
    /\ ~loopExits(variant, finalMessage.stop_reason)
    /\ modelCalls < MaxModelCalls
    /\ modelCalls' = modelCalls + 1
    /\ \E r \in ModelResponsesA(mcpTools, MaxToolUses - toolUsesIn(conversationHistory)) :
          LET content == BlocksContent(assistantBlocksA(r, toolUsesIn(conversationHistory)))
          IN  /\ finalMessage' = [content |-> content.blocks, stop_reason |-> r.stop_reason]
              /\ conversationHistory' = Append(conversationHistory, Msg("assistant", content))
              /\ db' = saveMessageLogged(db, "assistant", jsonStringify(content), saved)
              /\ toolIdx' = nextToolUse(content.blocks, 1)
    /\ events' = events \o chunkEvents(textDeltas)
                       \o <<Ev("content_block_complete", Null),
                             Ev("message_complete", Null)>>
    /\ pc' = "tools"
    /\ deltas' = deltas \o textDeltas
    /\ UNCHANGED <<accountCheckResult, resolutions, customerAccountUrls, httpResponse,
                   httpRequest, sessions, connected, error, calls, callers, vadfContext,
                   vadfResponse, toolUseResponse, variant, vadfManager, promptType,
                   userMessage, customerAccessToken, productsToDisplay, vadfIntent, toolCalls,
                   mcpTools>>

\* the session of Spec: every model call delivers its text in one delta
CallModelASaving(saved) == CallModelAStream(saved, <<"delta">>)

\* the model call rejects: streamConversation throws, and so does the session
ModelFails ==
    /\ pc = "loop"
    /\ ~loopExits(variant, finalMessage.stop_reason)
    /\ variant = "B" => ~needsAuthorization(customerAccessToken)
    /\ modelCalls < MaxModelCalls
    /\ modelCalls' = modelCalls + 1
    /\ pc' = sessionCatch(pc)
    /\ error' = "model"
    /\ UNCHANGED <<accountCheckResult, resolutions, customerAccountUrls, httpResponse,
                   httpRequest, sessions, deltas, connected, calls, callers, vadfContext,
                   vadfResponse, toolUseResponse, variant, vadfManager, promptType,
                   userMessage, customerAccessToken, events, conversationHistory, db,
                   productsToDisplay, finalMessage, toolIdx, vadfIntent, toolCalls, mcpTools>>

CallModelA == CallModelASaving(TRUE)

\* Route A, onToolUse for the next tool_use block of the final message
ToolUseSaving(saved) ==
    /\ pc = "tools" /\ variant = "A"
    /\ toolIdx <= Len(finalMessage.content)
    /\ \E outcome \in ToolOutcomes :
       \E randoms \in RandomsFor(productsIn(toolUseResponseOf(outcome))) :
          LET block == finalMessage.content[toolIdx]
              st0 == [history |-> conversationHistory, db |-> db,
                      events |-> Append(events, Ev("tool_use", block.name)),
                      products |-> productsToDisplay, thrown |-> FALSE]
              st1 == IF isToolError(outcome)
                     THEN handleToolError(st0, block.id, outcome, saved)
                     ELSE handleToolSuccess(st0, block.name, block.id, outcome,
                                            toolUseResponseOf(outcome), randoms)
          IN  /\ toolUseResponse' = toolUseResponseOf(outcome)
              /\ toolCalls' = Append(toolCalls, [id |-> block.id, name |-> block.name,
                                               outcome |-> outcome])
              /\ conversationHistory' = st1.history
              /\ db' = st1.db
              /\ productsToDisplay' = st1.products
              /\ events' = IF st1.thrown THEN st1.events
                           ELSE Append(st1.events, Ev("new_message", Null))
              /\ pc' = IF st1.thrown THEN sessionCatch(pc) ELSE "tools"
              /\ error' = IF st1.thrown THEN "tool" ELSE error
    /\ toolIdx' = nextToolUse(finalMessage.content, toolIdx + 1)
    /\ UNCHANGED <<accountCheckResult, resolutions, customerAccountUrls, httpResponse,
                   httpRequest, sessions, deltas, connected, calls, callers, vadfContext,
                   vadfResponse, variant, vadfManager, promptType, userMessage,
                   customerAccessToken, finalMessage, vadfIntent, modelCalls, mcpTools>>

ToolUse == ToolUseSaving(TRUE)

\* streamConversation returns the final message to the while loop
StreamReturns ==
    /\ pc = "tools"
    /\ toolIdx > Len(finalMessage.content)
    /\ pc' = "loop"
    /\ UNCHANGED <<accountCheckResult, resolutions, customerAccountUrls, httpResponse,
                   httpRequest, sessions, deltas, connected, error, calls, callers,
                   vadfContext, vadfResponse, toolUseResponse, variant, vadfManager,
                   promptType, userMessage, customerAccessToken, events, conversationHistory,
                   db, productsToDisplay, finalMessage, toolIdx, vadfIntent, modelCalls,
                   toolCalls, mcpTools>>

\* Route B without a token: the synthetic assistant message, no API call
AuthorizationRequiredSaving(saved) ==
    /\ pc = "loop" /\ variant = "B"
    /\ ~loopExits(variant, finalMessage.stop_reason)
    /\ needsAuthorization(customerAccessToken)
    /\ events' = events \o <<Ev("chunk", AuthLinkText), Ev("message_complete", Null)>>
    /\ conversationHistory' =
          Append(conversationHistory, Msg("assistant", TextContent(AuthLinkText)))
    /\ db' = saveMessageLogged(db, "assistant", jsonStringify(TextContent(AuthLinkText)),
                              saved)
    /\ finalMessage' = [content |-> <<>>, stop_reason |-> "auth_required"]
    /\ UNCHANGED <<accountCheckResult, resolutions, customerAccountUrls, httpResponse,
                   httpRequest, sessions, deltas, connected, error, calls, callers,
                   vadfContext, vadfResponse, toolUseResponse, variant, vadfManager,
                   promptType, userMessage, customerAccessToken, pc, productsToDisplay,
                   toolIdx, vadfIntent, modelCalls, toolCalls, mcpTools>>

AuthorizationRequired == AuthorizationRequiredSaving(TRUE)

\* Route B without a token: generateAuthUrl rejects, and so does the session
AuthorizationFails ==
    /\ pc = "loop" /\ variant = "B"
    /\ ~loopExits(variant, finalMessage.stop_reason)
    /\ needsAuthorization(customerAccessToken)
    /\ pc' = sessionCatch(pc)
    /\ error' = "authorization"
    /\ UNCHANGED <<accountCheckResult, resolutions, customerAccountUrls, httpResponse,
                   httpRequest, sessions, deltas, connected, calls, callers, vadfContext,
                   vadfResponse, toolUseResponse, variant, vadfManager, promptType,
                   userMessage, customerAccessToken, events, conversationHistory, db,
                   productsToDisplay, finalMessage, toolIdx, vadfIntent, modelCalls, toolCalls,
                   mcpTools>>

\* Route B with a token: one API call; the connector runs the tools, and
\* onToolResult collects the products of every mcp_tool_result block
CallModelBStream(saved, textDeltas) ==
    /\ pc = "loop" /\ variant = "B"
    /\ ~loopExits(variant, finalMessage.stop_reason)
    /\ ~needsAuthorization(customerAccessToken)
    /\ modelCalls < MaxModelCalls
    /\ modelCalls' = modelCalls + 1
    /\ \E r \in ModelResponsesB(MaxToolUses - toolUsesIn(conversationHistory)) :
          LET content == BlocksContent(assistantBlocksB(r))
          IN  /\ finalMessage' = [content |-> content.blocks, stop_reason |-> r.stop_reason]
              /\ conversationHistory' = Append(conversationHistory, Msg("assistant", content))
              /\ db' = saveMessageLogged(db, "assistant", jsonStringify(content), saved)
              /\ productsToDisplay' = productsToDisplay \o productsOfResults(content.blocks)
    /\ events' = events \o chunkEvents(textDeltas)
                       \o <<Ev("new_message", Null),
                             Ev("message_complete", Null)>>
    /\ deltas' = deltas \o textDeltas
    /\ UNCHANGED <<accountCheckResult, resolutions, customerAccountUrls, httpResponse,
                   httpRequest, sessions, connected, error, calls, callers, vadfContext,
                   vadfResponse, toolUseResponse, variant, vadfManager, promptType,
                   userMessage, customerAccessToken, pc, toolIdx, vadfIntent, toolCalls,
                   mcpTools>>

\* the session of Spec: every model call delivers its text in one delta
CallModelBSaving(saved) == CallModelBStream(saved, <<"delta">>)

CallModelB == CallModelBSaving(TRUE)

\* lines 310-316 / 625-634: the loop has ended
EndTurn ==
    /\ pc = "loop"
    /\ loopExits(variant, finalMessage.stop_reason)
    /\ events' = events \o endTurnEvents(productsToDisplay)
    /\ pc' = "done"
    /\ UNCHANGED <<accountCheckResult, resolutions, customerAccountUrls, httpResponse,
                   httpRequest, sessions, deltas, connected, error, calls, callers,
                   vadfContext, vadfResponse, toolUseResponse, variant, vadfManager,
                   promptType, userMessage, customerAccessToken, conversationHistory, db,
                   productsToDisplay, finalMessage, toolIdx, vadfIntent, modelCalls, toolCalls,
                   mcpTools>>

Next ==
    \/ StartSession
    \/ LoadHistory
    \/ StoreFails
    \/ VadfTurn
    \/ CallModelA
    \/ CallModelB
    \/ AuthorizationRequired
    \/ AuthorizationFails
    \/ ModelFails
    \/ ToolUse
    \/ StreamReturns
    \/ EndTurn

Spec == Init /\ [][Next]_vars

(***************************************************************************)
(* The session when every awaited call returns: no store call, model call  *)
(* or authorization lookup rejects.  handleChatSession is one async        *)
(* function: once the call it awaits has returned, it takes its next step, *)
(* which is weak fairness of the steps of the session.                     *)
(***************************************************************************)
NextReturning ==
    \/ StartSession
    \/ LoadHistory
    \/ VadfTurn
    \/ CallModelA
    \/ CallModelB
    \/ AuthorizationRequired
    \/ ToolUse
    \/ StreamReturns
    \/ EndTurn

SpecReturning == Init /\ [][NextReturning]_vars /\ WF_vars(NextReturning)

(***************************************************************************)
(* A session whose client can stop reading the event stream.  Nothing in   *)
(* handleChatSession or streamConversation reads request.signal, and no    *)
(* signal is handed to anthropic.messages.stream or to mcpClient.callTool. *)
(* The stream manager is made by createSseStream, which is outside the     *)
(* sources at hand: a sendMessage on a closed stream either drops the      *)
(* message or throws.                                                      *)
(***************************************************************************)
\* the positions at which the session waits for the store, the model or a tool
waitsForIo == pc \in {"save_user", "loop", "tools"}

\* the client closes the connection while the session waits
Disconnect ==
    /\ connected
    /\ waitsForIo
    /\ connected' = FALSE
    /\ UNCHANGED <<accountCheckResult, resolutions, customerAccountUrls, httpResponse,
                   httpRequest, sessions, deltas, error, calls, callers, vadfContext,
                   vadfResponse, toolUseResponse, variant, vadfManager, promptType,
                   userMessage, customerAccessToken, pc, events, conversationHistory, db,
                   productsToDisplay, finalMessage, toolIdx, vadfIntent, modelCalls, toolCalls,
                   mcpTools>>

\* the next step of the session starts with a sendMessage: the tool_use event
\* of onToolUse (line 273), the end_turn event (line 310 / 626)
sendsFirst ==
    \/ pc = "tools" /\ variant = "A" /\ toolIdx <= Len(finalMessage.content)
    \/ pc = "loop" /\ loopExits(variant, finalMessage.stop_reason)

\* sendMessage throws on the closed stream and the error leaves the session
SendMessageThrows ==
    /\ ~connected
    /\ sendsFirst
    /\ pc' = sessionCatch(pc)
    /\ error' = "transport"
    /\ UNCHANGED <<accountCheckResult, resolutions, customerAccountUrls, httpResponse,
                   httpRequest, sessions, deltas, connected, calls, callers, vadfContext,
                   vadfResponse, toolUseResponse, variant, vadfManager, promptType,
                   userMessage, customerAccessToken, events, conversationHistory, db,
                   productsToDisplay, finalMessage, toolIdx, vadfIntent, modelCalls, toolCalls,
                   mcpTools>>

NextDisconnect == Next \/ Disconnect \/ SendMessageThrows

SpecDisconnect == Init /\ [][NextDisconnect]_vars

(***************************************************************************)
(* A turn of the route with onToolUse whose model calls deliver their text  *)
(* in several deltas.  A delta is named by its rank of arrival in the turn. *)
(***************************************************************************)
InitChunks ==
    /\ Init
    /\ promptType = "standardAssistant"
    /\ userMessage = <<"b", "l", "a", "b", "l", "a">>
    /\ db = <<>>
    /\ variant = "A"

\* the deltas of the next model call: none to MaxDeltas
nextDeltas(k) == [i \in 1..k |-> Len(deltas) + i]

StreamModelA == \E k \in 0..MaxDeltas : CallModelAStream(TRUE, nextDeltas(k))

NextChunks ==
    \/ StartSession
    \/ LoadHistory
    \/ StreamModelA
    \/ ToolUse
    \/ StreamReturns
    \/ EndTurn

SpecChunks == InitChunks /\ [][NextChunks]_vars

(***************************************************************************)
(* The request handlers: handleChatRequest, which validates the body and   *)
(* opens the event stream in which handleChatSession runs, and the loader  *)
(* of the customer authorization route.                                    *)
(***************************************************************************)
\* the JSON objects a chat client can send
ChatObjects ==
    { m @@ c @@ p :
        m \in {EmptyObject, [message |-> <<>>], [message |-> <<"b", "l", "a", "b", "l", "a">>]},
        c \in {EmptyObject, [conversation_id |-> "c1"]},
        p \in {EmptyObject} \cup {[prompt_type |-> t] : t \in PromptTypes} }

\* the body of a chat request: none or no JSON text (a GET request has no
\* body), the JSON text null, or a JSON object
ChatBodies ==
    {[kind |-> "none"], [kind |-> "null"]}
    \cup {[kind |-> "object", fields |-> o] : o \in ChatObjects}

\* the query parameters of an authorization request: absent, empty or set
AuthParameters == {Undefined, "", "id"}

HttpRequests ==
    {[route |-> "chat", body |-> b] : b \in ChatBodies}
    \cup {[route |-> "auth", conversation_id |-> c, shop_id |-> sh] :
              c \in AuthParameters, sh \in AuthParameters}

\* AppConfig.api.defaultPromptType
defaultPromptType == "standardAssistant"

\* handleChatRequest: request.json() rejects without a JSON body and
\* body.message throws on null, both caught by the catch block (status 500);
\* a falsy message gives status 400; otherwise the stream is made and returned
handleChatRequest(req) ==
    IF req.body.kind \in {"none", "null"}
    THEN [status |-> 500, stream |-> FALSE]
    ELSE LET body == req.body.fields
         IN  IF "message" \notin DOMAIN body \/ body.message = <<>>
             THEN [status |-> 400, stream |-> FALSE]
             ELSE [status |-> 200, stream |-> TRUE,
                   userMessage |-> body.message,
                   conversationId |-> IF "conversation_id" \in DOMAIN body
                                      THEN body.conversation_id ELSE "Date.now()",
                   promptType |-> IF "prompt_type" \in DOMAIN body
                                  THEN body.prompt_type ELSE defaultPromptType]

\* the loader of the authorization route: 400 without conversation_id or
\* shop_id, else a redirect to the authorization URL of the shop
authLoader(req) ==
    IF req.conversation_id \in {Undefined, ""} \/ req.shop_id \in {Undefined, ""}
    THEN [status |-> 400, redirect |-> FALSE]
    ELSE [status |-> 302, redirect |-> TRUE]

InitRequest ==
    /\ variant \in {"A", "B"}
    /\ httpRequest \in HttpRequests
    /\ httpResponse = NoHttpResponse
    /\ promptType = Null
    /\ userMessage = <<>>
    /\ customerAccessToken \in (IF variant = "B" THEN {Null, "token"} ELSE {Null})
    /\ db \in PriorStores
    /\ vadfManager = NotLoaded
    /\ pc = "request"
    /\ events = <<>>
    /\ conversationHistory = <<>>
    /\ productsToDisplay = <<>>
    /\ finalMessage = InitialFinalMessage
    /\ toolIdx = 0
    /\ vadfIntent = Null
    /\ modelCalls = 0
    /\ toolCalls = <<>>
    /\ mcpTools = {}
    /\ vadfContext = NoContext
    /\ vadfResponse = NoResponse
    /\ toolUseResponse = NoToolUseResponse
    /\ accountCheckResult = NoAccountCheck
    /\ resolutions = NoResolutions
    /\ customerAccountUrls = NoUrls
    /\ calls = <<>>
    /\ callers = NoCallers
    /\ error = Null
    /\ connected = TRUE
    /\ deltas = <<>>
    /\ sessions = NoSessions

\* action / loader of the chat route: the response, and the session started
\* inside the stream when the request is accepted
HandleChatRequest ==
    /\ pc = "request"
    /\ httpRequest.route = "chat"
    /\ LET r == handleChatRequest(httpRequest)
       IN  /\ httpResponse' = [status |-> r.status, stream |-> r.stream]
           /\ IF r.stream
              THEN /\ userMessage' = r.userMessage
                   /\ promptType' = r.promptType
                   /\ pc' = "start"
              ELSE /\ pc' = "responded"
                   /\ UNCHANGED <<accountCheckResult, resolutions, customerAccountUrls,
                                  userMessage, promptType>>
    /\ UNCHANGED <<accountCheckResult, resolutions, customerAccountUrls, httpRequest, sessions,
                   deltas, connected, error, calls, callers, vadfContext, vadfResponse,
                   toolUseResponse, variant, vadfManager, customerAccessToken, events,
                   conversationHistory, db, productsToDisplay, finalMessage, toolIdx,
                   vadfIntent, modelCalls, toolCalls, mcpTools>>

AuthLoader ==
    /\ pc = "request"
    /\ httpRequest.route = "auth"
    /\ httpResponse' = authLoader(httpRequest)
    /\ pc' = "responded"
    /\ UNCHANGED <<accountCheckResult, resolutions, customerAccountUrls, httpRequest, sessions,
                   deltas, connected, error, calls, callers, vadfContext, vadfResponse,
                   toolUseResponse, variant, vadfManager, promptType, userMessage,
                   customerAccessToken, events, conversationHistory, db, productsToDisplay,
                   finalMessage, toolIdx, vadfIntent, modelCalls, toolCalls, mcpTools>>

NextRequest == HandleChatRequest \/ AuthLoader \/ Next

SpecRequest == InitRequest /\ [][NextRequest]_vars

(***************************************************************************)
(* Several chat sessions on one conversation.  Each is a handleChatSession *)
(* of its own (its history is a local variable); the rows of the           *)
(* conversation in the store are shared.  Every awaited store call is a    *)
(* point where another session can run.                                    *)
(***************************************************************************)
Sessions == 1..MaxSessions

\* the user message of session s: s letters
sessionMessage(s) == [i \in 1..s |-> "a"]

\* the answer of the model in session s names the session it belongs to
sessionAnswer(s, wantsTool) ==
    BlocksContent(<<[type |-> "text", text |-> sessionMessage(s)]>>
                  \o (IF wantsTool
                      THEN <<[type |-> "tool_use", id |-> s, name |-> productSearchName]>>
                      ELSE <<>>))

\* faulty variant: a session starts only when no other session of the
\* conversation is in its turn
mayStartSerialized(s) ==
    \A t \in Sessions \ {s} : sessions[t].pc \in {"save_user", "done"}

\* handleChatSession takes no lock and looks at no other session
mayStart(s) == TRUE

InitConcurrent ==
    /\ variant = "A"
    /\ promptType = "standardAssistant"
    /\ userMessage = <<"a">>
    /\ vadfManager = NotLoaded
    /\ customerAccessToken = Null
    /\ db = <<>>
    /\ pc = "concurrent"
    /\ events = <<>>
    /\ conversationHistory = <<>>
    /\ productsToDisplay = <<>>
    /\ finalMessage = InitialFinalMessage
    /\ toolIdx = 0
    /\ vadfIntent = Null
    /\ modelCalls = 0
    /\ toolCalls = <<>>
    /\ mcpTools = {}
    /\ vadfContext = NoContext
    /\ vadfResponse = NoResponse
    /\ toolUseResponse = NoToolUseResponse
    /\ accountCheckResult = NoAccountCheck
    /\ resolutions = NoResolutions
    /\ customerAccountUrls = NoUrls
    /\ calls = <<>>
    /\ callers = NoCallers
    /\ error = Null
    /\ connected = TRUE
    /\ deltas = <<>>
    /\ sessions = [s \in Sessions |-> [pc |-> "save_user", history |-> <<>>, toolDone |-> FALSE]]
    /\ httpRequest = NoRequest
    /\ httpResponse = NoHttpResponse

\* line 167: await saveMessage(conversationId, 'user', userMessage)
SaveUserMessage(s) ==
    /\ sessions[s].pc = "save_user"
    /\ mayStart(s)
    /\ db' = saveMessage(db, "user", [raw |-> sessionMessage(s)])
    /\ sessions' = [sessions EXCEPT ![s].pc = "load"]
    /\ UNCHANGED <<accountCheckResult, resolutions, customerAccountUrls, httpResponse,
                   httpRequest, deltas, connected, error, calls, callers, vadfContext,
                   vadfResponse, toolUseResponse, variant, vadfManager, promptType,
                   userMessage, customerAccessToken, pc, events, conversationHistory,
                   productsToDisplay, finalMessage, toolIdx, vadfIntent, modelCalls, toolCalls,
                   mcpTools>>

\* lines 168-180: await getConversationHistory(conversationId), decoded
LoadConversation(s) ==
    /\ sessions[s].pc = "load"
    /\ sessions' = [sessions EXCEPT ![s].pc = "loop", ![s].history = decodeHistory(db)]
    /\ UNCHANGED <<accountCheckResult, resolutions, customerAccountUrls, httpResponse,
                   httpRequest, deltas, connected, error, calls, callers, vadfContext,
                   vadfResponse, toolUseResponse, variant, vadfManager, promptType,
                   userMessage, customerAccessToken, pc, events, conversationHistory, db,
                   productsToDisplay, finalMessage, toolIdx, vadfIntent, modelCalls, toolCalls,
                   mcpTools>>

\* onMessage, lines 257-265: the assistant message is pushed and saved; the
\* model asks for one tool at most in a turn of this specification
ModelMessage(s) ==
    /\ sessions[s].pc = "loop"
    /\ \E wantsTool \in (IF sessions[s].toolDone THEN {FALSE} ELSE BOOLEAN) :
          LET content == sessionAnswer(s, wantsTool)
          IN  /\ db' = saveMessage(db, "assistant", jsonStringify(content))
              /\ sessions' = [sessions EXCEPT
                                 ![s].history = Append(@, Msg("assistant", content)),
                                 ![s].pc = IF wantsTool THEN "tools" ELSE "done"]
    /\ UNCHANGED <<accountCheckResult, resolutions, customerAccountUrls, httpResponse,
                   httpRequest, deltas, connected, error, calls, callers, vadfContext,
                   vadfResponse, toolUseResponse, variant, vadfManager, promptType,
                   userMessage, customerAccessToken, pc, events, conversationHistory,
                   productsToDisplay, finalMessage, toolIdx, vadfIntent, modelCalls, toolCalls,
                   mcpTools>>

\* the tool call fails and handleToolError hands the result to
\* addToolResultToHistory with the conversation id (tool.server.js:206-220)
ToolResult(s) ==
    /\ sessions[s].pc = "tools"
    /\ LET st == addToolResultToHistory([history |-> sessions[s].history, db |-> db],
                                        s, "error", TRUE, TRUE)
       IN  /\ db' = st.db
           /\ sessions' = [sessions EXCEPT ![s].history = st.history,
                                           ![s].pc = "loop",
                                           ![s].toolDone = TRUE]
    /\ UNCHANGED <<accountCheckResult, resolutions, customerAccountUrls, httpResponse,
                   httpRequest, deltas, connected, error, calls, callers, vadfContext,
                   vadfResponse, toolUseResponse, variant, vadfManager, promptType,
                   userMessage, customerAccessToken, pc, events, conversationHistory,
                   productsToDisplay, finalMessage, toolIdx, vadfIntent, modelCalls, toolCalls,
                   mcpTools>>

SessionStep(s) ==
    \/ SaveUserMessage(s)
    \/ LoadConversation(s)
    \/ ModelMessage(s)
    \/ ToolResult(s)

NextConcurrent == \E s \in Sessions : SessionStep(s)

SpecConcurrent == InitConcurrent /\ [][NextConcurrent]_vars

(***************************************************************************)
(* getCustomerMcpEndpoint, the first await of handleChatSession.  The      *)
(* table of customer account URLs belongs to the store; getCustomerAccount-*)
(* Url reads the row of a conversation and storeCustomerAccountUrl writes  *)
(* it.  Every awaited call can reject, and the catch of the function turns *)
(* any error into the value null.                                          *)
(***************************************************************************)
\* body.data.shop.url / body.data.shop.customerAccountUrl of the shop of a conversation
shopUrlOf(c) == IF c = "c1" THEN "https://shop-1" ELSE "https://shop-2"

\* `${url}/customer/api/mcp`
mcpEndpoint(url) == <<url, "/customer/api/mcp">>

\* the value null the function returns from its catch
NoEndpoint == <<>>

\* faulty variant: the row of the conversation is never taken as a hit
cacheHitNever(existingUrl) == FALSE

\* if (existingUrl)
cacheHit(existingUrl) == existingUrl # Null /\ existingUrl # ""

\* catch (error) { console.error(...); return null; }: the caller goes on
resolutionCatch(res) == [res EXCEPT !.pc = "session", !.endpoint = NoEndpoint]

NewResolution(c) ==
    [pc |-> "cache", conversation |-> c, cached |-> Null, queried |-> FALSE,
     url |-> Null, endpoint |-> NoEndpoint]

InitEndpoint ==
    /\ variant \in {"A", "B"}
    /\ promptType = "standardAssistant"
    /\ userMessage = <<"a">>
    /\ vadfManager = NotLoaded
    /\ customerAccessToken = Null
    /\ db = <<>>
    /\ pc = "resolving"
    /\ events = <<>>
    /\ conversationHistory = <<>>
    /\ productsToDisplay = <<>>
    /\ finalMessage = InitialFinalMessage
    /\ toolIdx = 0
    /\ vadfIntent = Null
    /\ modelCalls = 0
    /\ toolCalls = <<>>
    /\ mcpTools = {}
    /\ vadfContext = NoContext
    /\ vadfResponse = NoResponse
    /\ toolUseResponse = NoToolUseResponse
    /\ accountCheckResult = NoAccountCheck
    /\ calls = <<>>
    /\ callers = NoCallers
    /\ error = Null
    /\ connected = TRUE
    /\ deltas = <<>>
    /\ sessions = NoSessions
    /\ httpRequest = NoRequest
    /\ httpResponse = NoHttpResponse
    /\ customerAccountUrls \in [ConversationIds -> {Null}]
    /\ resolutions \in {[r \in Requests |-> NewResolution(f[r])] :
                           f \in [Requests -> ConversationIds]}

\* const existingUrl = await getCustomerAccountUrl(conversationId); if (existingUrl) return ...
ReadCustomerAccountUrl(r) ==
    /\ resolutions[r].pc = "cache"
    /\ \E rejected \in BOOLEAN :
          LET existingUrl == customerAccountUrls[resolutions[r].conversation]
          IN  resolutions' = [resolutions EXCEPT ![r] =
                  IF rejected THEN resolutionCatch(@)
                  ELSE IF cacheHit(existingUrl)
                  THEN [@ EXCEPT !.cached = existingUrl, !.pc = "session",
                                 !.endpoint = mcpEndpoint(existingUrl)]
                  ELSE [@ EXCEPT !.cached = existingUrl, !.pc = "discover"]]
    /\ UNCHANGED <<accountCheckResult, customerAccountUrls, httpResponse, httpRequest,
                   sessions, deltas, connected, error, calls, callers, vadfContext,
                   vadfResponse, toolUseResponse, variant, vadfManager, promptType,
                   userMessage, customerAccessToken, pc, events, conversationHistory, db,
                   productsToDisplay, finalMessage, toolIdx, vadfIntent, modelCalls, toolCalls,
                   mcpTools>>

\* new URL(shopDomain), unauthenticated.storefront, storefront.graphql, response.json()
QueryShop(r) ==
    /\ resolutions[r].pc = "discover"
    /\ \E rejected \in BOOLEAN :
          resolutions' = [resolutions EXCEPT ![r] =
              IF rejected THEN [resolutionCatch(@) EXCEPT !.queried = TRUE]
              ELSE [@ EXCEPT !.queried = TRUE, !.pc = "store",
                             !.url = shopUrlOf(resolutions[r].conversation)]]
    /\ UNCHANGED <<accountCheckResult, customerAccountUrls, httpResponse, httpRequest,
                   sessions, deltas, connected, error, calls, callers, vadfContext,
                   vadfResponse, toolUseResponse, variant, vadfManager, promptType,
                   userMessage, customerAccessToken, pc, events, conversationHistory, db,
                   productsToDisplay, finalMessage, toolIdx, vadfIntent, modelCalls, toolCalls,
                   mcpTools>>

\* await storeCustomerAccountUrl(conversationId, url); return `${url}/customer/api/mcp`
StoreCustomerAccountUrl(r) ==
    /\ resolutions[r].pc = "store"
    /\ \E rejected \in BOOLEAN :
          /\ customerAccountUrls' =
                IF rejected THEN customerAccountUrls
                ELSE [customerAccountUrls EXCEPT
                         ![resolutions[r].conversation] = resolutions[r].url]
          /\ resolutions' = [resolutions EXCEPT ![r] =
                IF rejected THEN resolutionCatch(@)
                ELSE [@ EXCEPT !.pc = "session", !.endpoint = mcpEndpoint(resolutions[r].url)]]
    /\ UNCHANGED <<accountCheckResult, httpResponse, httpRequest, sessions, deltas,
                   connected, error, calls, callers, vadfContext, vadfResponse,
                   toolUseResponse, variant, vadfManager, promptType, userMessage,
                   customerAccessToken, pc, events, conversationHistory, db,
                   productsToDisplay, finalMessage, toolIdx, vadfIntent, modelCalls,
                   toolCalls, mcpTools>>

NextEndpoint ==
    \E r \in Requests :
        \/ ReadCustomerAccountUrl(r)
        \/ QueryShop(r)
        \/ StoreCustomerAccountUrl(r)

SpecEndpoint == InitEndpoint /\ [][NextEndpoint]_vars

(***************************************************************************)
(* A session on the model path during which the store can reject the       *)
(* write of an assistant message or of a tool-result message.              *)
(***************************************************************************)
InitStoreFailure ==
    /\ Init
    /\ promptType = "standardAssistant"
    /\ userMessage = <<"b", "l", "a", "b", "l", "a">>
    /\ db = <<>>

NextStoreFailure ==
    \/ StartSession
    \/ LoadHistory
    \/ StoreFails
    \/ \E saved \in BOOLEAN : CallModelASaving(saved)
    \/ \E saved \in BOOLEAN : CallModelBSaving(saved)
    \/ \E saved \in BOOLEAN : AuthorizationRequiredSaving(saved)
    \/ AuthorizationFails
    \/ ModelFails
    \/ \E saved \in BOOLEAN : ToolUseSaving(saved)
    \/ StreamReturns
    \/ EndTurn

SpecStoreFailure == InitStoreFailure /\ [][NextStoreFailure]_vars

(***************************************************************************)
(* Several requests, one after the other, for the same conversation, with  *)
(* a store that can reject writes of the model loop.                       *)
(***************************************************************************)
\* the user messages saved so far: one for each request
turnsOf(rows) == Cardinality({j \in 1..Len(rows) : "raw" \in DOMAIN rows[j].content})

\* handleChatRequest for the conversation_id of the completed session: a new
\* handleChatSession with its own history, accumulators and client
NextTurn ==
    /\ pc = "done"
    /\ turnsOf(db) < MaxTurns
    /\ pc' = "start"
    /\ events' = <<>>
    /\ conversationHistory' = <<>>
    /\ productsToDisplay' = <<>>
    /\ finalMessage' = InitialFinalMessage
    /\ toolIdx' = 0
    /\ vadfIntent' = Null
    /\ modelCalls' = 0
    /\ toolCalls' = <<>>
    /\ mcpTools' = {}
    /\ vadfContext' = NoContext
    /\ vadfResponse' = NoResponse
    /\ toolUseResponse' = NoToolUseResponse
    /\ UNCHANGED <<accountCheckResult, resolutions, customerAccountUrls, httpResponse,
                   httpRequest, sessions, deltas, connected, error, calls, callers, variant,
                   vadfManager, promptType, userMessage, customerAccessToken, db>>

NextTurns == NextStoreFailure \/ NextTurn

SpecTurns == InitStoreFailure /\ [][NextTurns]_vars

(***************************************************************************)
(* The tool service on its own: one tool response is normalized.           *)
(***************************************************************************)
StringFields == {"product_id", "title", "image_url", "description", "url", "embedded_url"}

\* the value of a string field that is present
fieldValue(f) ==
    IF f = "product_id" THEN "gid-9"
    ELSE IF f = "title" THEN "Scotch"
    ELSE IF f = "image_url" THEN "https://vadf.fr/i/9"
    ELSE IF f = "description" THEN "Rouleau adhesif"
    ELSE IF f = "url" THEN "https://vadf.fr/p/9"
    ELSE "https://vadf.fr/e/9"

\* no price range, a complete one, one without currency
PriceRanges == {<<>>, <<[currency |-> "EUR", min |-> "10"]>>, <<[min |-> "10"]>>}

\* no variants field, no variant, one variant, two variants
VariantLists ==
    {<<>>, <<<<>>>>, <<<<[currency |-> "EUR", price |-> "3"]>>>>,
     <<<<[currency |-> "USD", price |-> "4"], [currency |-> "EUR", price |-> "3"]>>>>}

\* a raw product: any subset of the string fields, with or without price data
rawProduct(fields, range, variantList) ==
    [f \in fields \cup (IF Len(range) > 0 THEN {"price_range"} ELSE {})
                  \cup (IF Len(variantList) > 0 THEN {"variants"} ELSE {}) |->
        IF f = "price_range" THEN range[1]
        ELSE IF f = "variants" THEN variantList[1]
        ELSE fieldValue(f)]

RawProducts ==
    {rawProduct(fields, range, variantList) :
        fields \in SUBSET StringFields, range \in PriceRanges, variantList \in VariantLists}

\* the products a search result is made of: the catalog, and one without an id
SearchableProducts ==
    {Catalog[i] : i \in 1..Len(Catalog)} \cup {[title |-> "Sans reference"]}

ProductLists ==
    {<<p>> : p \in RawProducts}
    \cup UNION {[1..n -> SearchableProducts] : n \in 0..MaxProducts}

\* the responses a tool call or an mcp_tool_result block can hold
ToolResponses ==
    {[content |-> <<textItem(jsonStringify([products |-> ps]))>>] : ps \in ProductLists}
    \cup {[content |-> <<textItem([object |-> [products |-> SearchHits]])>>]}
    \cup {toolUseResponseOf(outcome) : outcome \in ToolOutcomes}
    \cup {[content |-> <<textItem([raw |-> <<"4", "2">>])>>], [content |-> <<>>]}

InitProducts ==
    /\ variant \in {"A", "B"}
    /\ promptType = "standardAssistant"
    /\ userMessage = <<"c", "h", "e", "r", "c", "h", "e">>
    /\ customerAccessToken = Null
    /\ db = <<>>
    /\ vadfManager = NotLoaded
    /\ pc = "process"
    /\ events = <<>>
    /\ conversationHistory = <<>>
    /\ productsToDisplay = <<>>
    /\ finalMessage = InitialFinalMessage
    /\ toolIdx = 0
    /\ vadfIntent = Null
    /\ modelCalls = 0
    /\ toolCalls = <<>>
    /\ mcpTools = {}
    /\ vadfContext = NoContext
    /\ vadfResponse = NoResponse
    /\ toolUseResponse \in ToolResponses
    /\ accountCheckResult = NoAccountCheck
    /\ resolutions = NoResolutions
    /\ customerAccountUrls = NoUrls
    /\ httpResponse = NoHttpResponse
    /\ httpRequest = NoRequest
    /\ sessions = NoSessions
    /\ deltas = <<>>
    /\ connected = TRUE
    /\ error = Null
    /\ calls = <<>>
    /\ callers = NoCallers

\* productsToDisplay.push(...processProductSearchResult(toolUseResponse))
ProcessProductSearch ==
    /\ pc = "process"
    /\ \E randoms \in RandomsFor(productsIn(toolUseResponse)) :
          productsToDisplay' = productsToDisplay \o processProductSearchResult(toolUseResponse, randoms)
    /\ pc' = "processed"
    /\ UNCHANGED <<accountCheckResult, resolutions, customerAccountUrls, httpResponse,
                   httpRequest, sessions, deltas, connected, error, calls, callers, variant,
                   vadfManager, promptType, userMessage, customerAccessToken, events,
                   conversationHistory, db, finalMessage, toolIdx, vadfIntent, modelCalls,
                   toolCalls, mcpTools, vadfContext, vadfResponse, toolUseResponse>>

NextProducts == ProcessProductSearch

SpecProducts == InitProducts /\ [][NextProducts]_vars

(***************************************************************************)
(* getResponse on its own: a loaded manager answers one intent in one      *)
(* context.                                                                *)
(***************************************************************************)
\* the intents a caller can pass: those of the rule set, and the fallback
IntentNames ==
    {"activation_compte", "mot_de_passe_oublie", "mise_a_jour_infos_entreprise",
     "escalade_support", "salutation", "unknown"}

\* the values a caller can give to the variables of the context
ContextValues ==
    [compte_actif |-> {"true", "false"}, email_renvoye |-> {"true"},
     email |-> {"test@vadf.fr"}, prenom |-> {"Camille"}]

\* the contexts: any subset of the variables, each with one of its values
Contexts ==
    UNION {{ctx \in [names -> UNION {ContextValues[n] : n \in names}] :
               \A n \in names : ctx[n] \in ContextValues[n]} :
           names \in SUBSET DOMAIN ContextValues}

InitResponse ==
    /\ variant = "A"
    /\ promptType = "vadfAssistant"
    /\ userMessage = <<"b", "l", "a", "b", "l", "a">>
    /\ vadfManager \in LoadedManagers
    /\ customerAccessToken = Null
    /\ db = <<>>
    /\ pc = "respond"
    /\ events = <<>>
    /\ conversationHistory = <<>>
    /\ productsToDisplay = <<>>
    /\ finalMessage = InitialFinalMessage
    /\ toolIdx = 0
    /\ vadfIntent \in IntentNames
    /\ modelCalls = 0
    /\ toolCalls = <<>>
    /\ mcpTools = {}
    /\ vadfContext \in Contexts
    /\ vadfResponse = NoResponse
    /\ toolUseResponse = NoToolUseResponse
    /\ accountCheckResult = NoAccountCheck
    /\ resolutions = NoResolutions
    /\ customerAccountUrls = NoUrls
    /\ httpResponse = NoHttpResponse
    /\ httpRequest = NoRequest
    /\ sessions = NoSessions
    /\ deltas = <<>>
    /\ connected = TRUE
    /\ error = Null
    /\ calls = <<>>
    /\ callers = NoCallers

\* vadfResponse = vadfManager.getResponse(vadfIntent, vadfContext)
Respond ==
    /\ pc = "respond"
    /\ vadfResponse' = getResponse(vadfManager.responses, vadfIntent, vadfContext)
    /\ pc' = "responded"
    /\ UNCHANGED <<accountCheckResult, resolutions, customerAccountUrls, httpResponse,
                   httpRequest, sessions, deltas, connected, error, calls, callers, variant,
                   vadfManager, promptType, userMessage, customerAccessToken, events,
                   conversationHistory, db, productsToDisplay, finalMessage, toolIdx,
                   vadfIntent, modelCalls, toolCalls, mcpTools, vadfContext, toolUseResponse>>

NextResponse == Respond

SpecResponse == InitResponse /\ [][NextResponse]_vars

(***************************************************************************)
(* replaceVars on its own: a manager whose rule set has one template       *)
(* without conditions answers in one context.  The template text is a      *)
(* string of the rule set file, given by its characters.                   *)
(***************************************************************************)
\* the pieces template texts are made of: whole placeholders, their
\* delimiters, word characters and other characters
Segments ==
    { <<"{", "{", "a", "}", "}">>, <<"{", "{", "b", "}", "}">>,
      <<"{", "{">>, <<"}", "}">>, <<"{">>, <<"}">>,
      <<"a">>, <<" ">>, <<"e_acute">> }

RECURSIVE concat(_)
concat(segments) ==
    IF segments = <<>> THEN <<>> ELSE Head(segments) \o concat(Tail(segments))

TemplateTexts ==
    {concat(segments) : segments \in UNION {[1..n -> Segments] : n \in 0..MaxSegments}}

\* a template of the rule set: its text is cut into pieces when replaceVars
\* runs its expression over it; source is the text as the file has it
TplOfText(chars) ==
    [conditions |-> <<>>, text |-> matchPlaceholders(chars), source |-> chars]

RuleSetOfText(chars) ==
    [ intents |-> [salutation |-> << TplOfText(chars) >>],
      common_phrases |-> [error |-> ErrorPhrase, contact_support |-> SupportPhrase],
      context |-> [support |-> "contact@vadf.fr"] ]

\* the values of the variables a and b; null is a value JSON can give
ReplaceValues ==
    [n \in {<<"a">>, <<"b">>} |->
        IF n = <<"a">> THEN {"Camille", Null} ELSE {"test@vadf.fr"}]

ReplaceContexts ==
    UNION {{ctx \in [names -> UNION {ReplaceValues[n] : n \in names}] :
               \A n \in names : ctx[n] \in ReplaceValues[n]} :
           names \in SUBSET DOMAIN ReplaceValues}

InitReplace ==
    /\ variant = "A"
    /\ promptType = "vadfAssistant"
    /\ userMessage = <<"b", "l", "a", "b", "l", "a">>
    /\ vadfManager \in {[loaded |-> TRUE, version |-> 2, responses |-> RuleSetOfText(t)] :
                            t \in TemplateTexts}
    /\ customerAccessToken = Null
    /\ db = <<>>
    /\ pc = "respond"
    /\ events = <<>>
    /\ conversationHistory = <<>>
    /\ productsToDisplay = <<>>
    /\ finalMessage = InitialFinalMessage
    /\ toolIdx = 0
    /\ vadfIntent = "salutation"
    /\ modelCalls = 0
    /\ toolCalls = <<>>
    /\ mcpTools = {}
    /\ vadfContext \in ReplaceContexts
    /\ vadfResponse = NoResponse
    /\ toolUseResponse = NoToolUseResponse
    /\ accountCheckResult = NoAccountCheck
    /\ resolutions = NoResolutions
    /\ customerAccountUrls = NoUrls
    /\ httpResponse = NoHttpResponse
    /\ httpRequest = NoRequest
    /\ sessions = NoSessions
    /\ deltas = <<>>
    /\ connected = TRUE
    /\ error = Null
    /\ calls = <<>>
    /\ callers = NoCallers

SpecReplace == InitReplace /\ [][NextResponse]_vars

(***************************************************************************)
(* The manager singleton of a process that serves several requests:        *)
(* getVadfManager, load, and the calls each request makes on the manager   *)
(* it received (part_002:185-206: detectIntent, then getResponse).  Every  *)
(* await is a point where another request can run.                         *)
(***************************************************************************)
\* this.responses = null
NoResponses == [none |-> TRUE]

\* new VADFResponseManager(): responses null, loaded false
NewManager == [loaded |-> FALSE, version |-> 2, responses |-> NoResponses]

\* the messages of the requests
ManagerMessages ==
    { <<"b", "l", "a", "b", "l", "a">>, <<"c", "o", "m", "p", "t", "e">>,
      <<"B", "o", "n", "j", "o", "u", "r">> }

Caller(position) == [pc |-> position, loaded |-> FALSE, intent |-> Null]

\* faulty variant: a message without keyword is greeted once; the manager
\* keeps whether it has greeted
detectIntentCallGreetingOnce(manager, message) ==
    LET found == detectIntent(manager.version, message)
    IN  IF found = "unknown" /\ "greeted" \notin DOMAIN manager
        THEN [manager |-> [greeted |-> TRUE] @@ manager, intent |-> "salutation"]
        ELSE [manager |-> manager, intent |-> found]

\* manager.detectIntent(message): the manager after the call and the value
\* returned.  The method assigns nothing to this.
detectIntentCall(manager, message) ==
    [manager |-> manager, intent |-> detectIntent(manager.version, message)]

InitManager ==
    /\ variant = "A"
    /\ promptType = "vadfAssistant"
    /\ userMessage = <<"b", "l", "a", "b", "l", "a">>
    /\ vadfManager = NotLoaded
    /\ customerAccessToken = Null
    /\ db = <<>>
    /\ pc = "serving"
    /\ events = <<>>
    /\ conversationHistory = <<>>
    /\ productsToDisplay = <<>>
    /\ finalMessage = InitialFinalMessage
    /\ toolIdx = 0
    /\ vadfIntent = Null
    /\ modelCalls = 0
    /\ toolCalls = <<>>
    /\ mcpTools = {}
    /\ vadfContext = NoContext
    /\ vadfResponse = NoResponse
    /\ toolUseResponse = NoToolUseResponse
    /\ accountCheckResult = NoAccountCheck
    /\ resolutions = NoResolutions
    /\ customerAccountUrls = NoUrls
    /\ httpResponse = NoHttpResponse
    /\ httpRequest = NoRequest
    /\ sessions = NoSessions
    /\ deltas = <<>>
    /\ connected = TRUE
    /\ error = Null
    /\ calls = <<>>
    /\ callers = [r \in Requests |-> Caller("idle")]

\* getVadfManager up to its first await: without instance, one is made and
\* published, and its load starts; with an instance, that instance is returned
GetVadfManager(r) ==
    /\ callers[r].pc = "idle"
    /\ IF vadfManager = NotLoaded
       THEN /\ vadfManager' = NewManager
            /\ callers' = [callers EXCEPT ![r].pc = "loading"]
       ELSE /\ vadfManager' = vadfManager
            /\ callers' = [callers EXCEPT ![r].pc = "returned",
                                          ![r].loaded = vadfManager.loaded]
    /\ UNCHANGED <<accountCheckResult, resolutions, customerAccountUrls, httpResponse,
                   httpRequest, sessions, deltas, connected, error, calls, vadfContext,
                   vadfResponse, toolUseResponse, variant, promptType, userMessage,
                   customerAccessToken, pc, events, conversationHistory, db, productsToDisplay,
                   finalMessage, toolIdx, vadfIntent, modelCalls, toolCalls, mcpTools>>

\* load after readFile resolved: responses = JSON.parse(data), loaded = true,
\* and getVadfManager returns the instance
LoadSucceeds(r) ==
    /\ callers[r].pc = "loading"
    /\ \E responses \in RuleSets :
          vadfManager' = [vadfManager EXCEPT !.responses = responses, !.loaded = TRUE]
    /\ callers' = [callers EXCEPT ![r].pc = "returned", ![r].loaded = TRUE]
    /\ UNCHANGED <<accountCheckResult, resolutions, customerAccountUrls, httpResponse,
                   httpRequest, sessions, deltas, connected, error, calls, vadfContext,
                   vadfResponse, toolUseResponse, variant, promptType, userMessage,
                   customerAccessToken, pc, events, conversationHistory, db, productsToDisplay,
                   finalMessage, toolIdx, vadfIntent, modelCalls, toolCalls, mcpTools>>

\* readFile rejects or JSON.parse throws: load assigns nothing and
\* getVadfManager rejects, the instance staying where it was published
LoadFails(r) ==
    /\ callers[r].pc = "loading"
    /\ callers' = [callers EXCEPT ![r].pc = "failed"]
    /\ UNCHANGED <<accountCheckResult, resolutions, customerAccountUrls, httpResponse,
                   httpRequest, sessions, deltas, connected, error, calls, vadfContext,
                   vadfResponse, toolUseResponse, variant, vadfManager, promptType,
                   userMessage, customerAccessToken, pc, events, conversationHistory, db,
                   productsToDisplay, finalMessage, toolIdx, vadfIntent, modelCalls, toolCalls,
                   mcpTools>>

\* vadfManager.detectIntent(userMessage): Object.keys(this.responses.intents)
\* throws a TypeError when responses is null
DetectIntentCall(r) ==
    /\ callers[r].pc = "returned"
    /\ IF vadfManager.responses = NoResponses
       THEN /\ callers' = [callers EXCEPT ![r].pc = "threw"]
            /\ UNCHANGED <<accountCheckResult, resolutions, customerAccountUrls, httpResponse,
                           httpRequest, sessions, deltas, connected, error, vadfManager,
                           calls>>
       ELSE \E message \in ManagerMessages :
               LET out == detectIntentCall(vadfManager, message)
               IN  /\ vadfManager' = out.manager
                   /\ calls' = Append(calls, [op |-> "detectIntent", message |-> message,
                                              intent |-> out.intent])
                   /\ callers' = [callers EXCEPT ![r].pc = "classified",
                                                 ![r].intent = out.intent]
    /\ UNCHANGED <<accountCheckResult, resolutions, customerAccountUrls, httpResponse,
                   httpRequest, sessions, deltas, connected, error, vadfContext, vadfResponse,
                   toolUseResponse, variant, promptType, userMessage, customerAccessToken, pc,
                   events, conversationHistory, db, productsToDisplay, finalMessage, toolIdx,
                   vadfIntent, modelCalls, toolCalls, mcpTools>>

\* vadfManager.getResponse(vadfIntent, vadfManager.enrichContext({isFirstMessage}))
GetResponseCall(r) ==
    /\ callers[r].pc = "classified"
    /\ \E isFirstMessage \in BOOLEAN :
          LET context == vadfContextOf(vadfManager.responses, isFirstMessage, NoAccountCheck)
          IN  calls' = Append(calls, [op |-> "getResponse", intent |-> callers[r].intent,
                                     response |-> getResponse(vadfManager.responses,
                                                              callers[r].intent, context)])
    /\ callers' = [callers EXCEPT ![r].pc = "done"]
    /\ UNCHANGED <<accountCheckResult, resolutions, customerAccountUrls, httpResponse,
                   httpRequest, sessions, deltas, connected, error, vadfContext, vadfResponse,
                   toolUseResponse, variant, vadfManager, promptType, userMessage,
                   customerAccessToken, pc, events, conversationHistory, db, productsToDisplay,
                   finalMessage, toolIdx, vadfIntent, modelCalls, toolCalls, mcpTools>>

NextManager ==
    \E r \in Requests :
        \/ GetVadfManager(r)
        \/ LoadSucceeds(r)
        \/ LoadFails(r)
        \/ DetectIntentCall(r)
        \/ GetResponseCall(r)

SpecManager == InitManager /\ [][NextManager]_vars

(***************************************************************************)
(* A session whose user message can be a text that JSON.parse accepts.     *)
(***************************************************************************)
RoundTripMessages == {<<"b", "l", "a", "b", "l", "a">>, <<"4", "2">>}

InitRoundTrip ==
    /\ variant \in {"A", "B"}
    /\ promptType \in PromptTypes
    /\ userMessage \in RoundTripMessages
    /\ customerAccessToken \in (IF variant = "B" THEN {Null, "token"} ELSE {Null})
    /\ db \in PriorStores
    /\ vadfManager = NotLoaded
    /\ pc = "start"
    /\ events = <<>>
    /\ conversationHistory = <<>>
    /\ productsToDisplay = <<>>
    /\ finalMessage = InitialFinalMessage
    /\ toolIdx = 0
    /\ vadfIntent = Null
    /\ modelCalls = 0
    /\ toolCalls = <<>>
    /\ mcpTools = {}
    /\ vadfContext = NoContext
    /\ vadfResponse = NoResponse
    /\ toolUseResponse = NoToolUseResponse
    /\ accountCheckResult = NoAccountCheck
    /\ resolutions = NoResolutions
    /\ customerAccountUrls = NoUrls
    /\ httpResponse = NoHttpResponse
    /\ httpRequest = NoRequest
    /\ sessions = NoSessions
    /\ deltas = <<>>
    /\ connected = TRUE
    /\ error = Null
    /\ calls = <<>>
    /\ callers = NoCallers

SpecRoundTrip == InitRoundTrip /\ [][Next]_vars

(***************************************************************************)
(* detectIntent on its own: a loaded manager classifies one message.       *)
(***************************************************************************)
InitIntent ==
    /\ variant = "A"
    /\ promptType = "vadfAssistant"
    /\ userMessage \in Messages
    /\ vadfManager \in LoadedManagers
    /\ customerAccessToken = Null
    /\ db = <<>>
    /\ pc = "classify"
    /\ events = <<>>
    /\ conversationHistory = <<>>
    /\ productsToDisplay = <<>>
    /\ finalMessage = InitialFinalMessage
    /\ toolIdx = 0
    /\ vadfIntent = Null
    /\ modelCalls = 0
    /\ toolCalls = <<>>
    /\ mcpTools = {}
    /\ vadfContext = NoContext
    /\ vadfResponse = NoResponse
    /\ toolUseResponse = NoToolUseResponse
    /\ accountCheckResult = NoAccountCheck
    /\ resolutions = NoResolutions
    /\ customerAccountUrls = NoUrls
    /\ httpResponse = NoHttpResponse
    /\ httpRequest = NoRequest
    /\ sessions = NoSessions
    /\ deltas = <<>>
    /\ connected = TRUE
    /\ error = Null
    /\ calls = <<>>
    /\ callers = NoCallers

Classify ==
    /\ pc = "classify"
    /\ vadfIntent' = detectIntent(vadfManager.version, userMessage)
    /\ pc' = "classified"
    /\ UNCHANGED <<accountCheckResult, resolutions, customerAccountUrls, httpResponse,
                   httpRequest, sessions, deltas, connected, error, calls, callers,
                   vadfContext, vadfResponse, toolUseResponse, variant, vadfManager,
                   promptType, userMessage, customerAccessToken, events, conversationHistory,
                   db, productsToDisplay, finalMessage, toolIdx, modelCalls, toolCalls,
                   mcpTools>>

NextIntent == Classify

SpecIntent == InitIntent /\ [][NextIntent]_vars

(***************************************************************************)
(* Properties.                                                             *)
(***************************************************************************)
\* the message holds one of the product keywords of detectIntent
hasCommerceKeyword(message) == someIncluded(productKeywords, toLowerCase(message))

authFailureAt(i) == toolCalls[i].outcome = "auth_required"

authFailureSeen == \E i \in 1..Len(toolCalls) : authFailureAt(i)

\* C1: a session that completes (on the deterministic path or on the model
\* path, after any number of model calls and tool calls) has emitted end_turn
\* exactly once.
C1_ExactlyOneEndTurn ==
    pc = "done" => Count(events, "end_turn") = 1

C1_Witness ==
    /\ pc = "done"
    /\ modelCalls >= 2
    /\ Len(toolCalls) >= 2
    /\ Count(events, "end_turn") = 1

\* C2 (as claimed): end_turn is the last event of the stream; nothing, not
\* even product_results, follows it.
C2_NothingAfterEndTurn ==
    \A i \in 1..Len(events) : events[i].type = "end_turn" => i = Len(events)

\* C2 (amended): the only event that can follow end_turn is one
\* product_results event, emitted right after it.
C2_OnlyProductResultsAfterEndTurn ==
    \A i \in 1..Len(events) :
        events[i].type = "end_turn" =>
            \/ i = Len(events)
            \/ i = Len(events) - 1 /\ events[Len(events)].type = "product_results"

C2_Witness ==
    /\ pc = "done"
    /\ Len(events) >= 2
    /\ events[Len(events) - 1].type = "end_turn"
    /\ events[Len(events)].type = "product_results"

\* C3: once a tool invocation has returned an auth_required error, the turn
\* holds exactly one auth_required event and no later tool invocation.
C3_AuthRequiredHaltsTools ==
    \A i \in 1..Len(toolCalls) :
        authFailureAt(i) => i = Len(toolCalls) /\ Count(events, "auth_required") = 1

\* C4: when a tool invocation returned an authorization error, auth_required
\* is in the stream, before any end_turn, and no tool_use event follows it.
C4_AuthBeforeEndNoToolUseAfter ==
    /\ authFailureSeen => Count(events, "auth_required") >= 1
    /\ \A i \in 1..Len(events) :
          events[i].type = "auth_required" =>
              /\ \A j \in 1..(i - 1) : events[j].type # "end_turn"
              /\ \A j \in (i + 1)..Len(events) : events[j].type # "tool_use"

\* C5: after a tool failure classified auth_required, no step of the turn
\* makes a model call or invokes a tool for a request already invoked.
C5_AuthFailureIsTerminal ==
    [][authFailureSeen =>
          /\ modelCalls' = modelCalls
          /\ \A i \in 1..Len(toolCalls'), j \in 1..Len(toolCalls') :
                toolCalls'[i].id = toolCalls'[j].id => i = j]_vars

\* C6: on the connector route without an access token, the turn makes no
\* model call and no tool invocation, appends at most one assistant message,
\* and ends with that single synthetic message, stop reason auth_required.
C6_NoTokenShortCircuits ==
    (variant = "B" /\ customerAccessToken = Null) =>
        /\ modelCalls = 0
        /\ toolCalls = <<>>
        /\ Count(events, "message_complete") <= 1
        /\ pc = "done" =>
              /\ Count(events, "message_complete") = 1
              /\ finalMessage.stop_reason = "auth_required"
              /\ conversationHistory[Len(conversationHistory)]
                    = Msg("assistant", TextContent(AuthLinkText))

C6_Witness ==
    /\ variant = "B" /\ customerAccessToken = Null
    /\ pc = "done"
    /\ Count(events, "message_complete") = 1

C8_DeterministicEventOrder ==
    (variant = "A" /\ promptType = "vadfAssistant" /\ pc = "done") =>
        \/ Types(events) = <<"id", "vadf_response", "end_turn">>
        \/ Types(events) = <<"id", "vadf_response", "escalade", "end_turn">>

\* C9: a completed turn whose message holds a commerce keyword and was
\* classified "unknown" (by the copy of detectIntent that has the product
\* keyword list) has made a model call and sent no vadf_response.
C9_CommerceMessageReachesModel ==
    (/\ pc = "done"
     /\ vadfIntent = "unknown"
     /\ vadfManager.loaded /\ vadfManager.version = 2
     /\ hasCommerceKeyword(userMessage)) =>
        modelCalls >= 1 /\ Count(events, "vadf_response") = 0

\* C10: detectIntent returns "unknown" for every message that holds a
\* commerce keyword, whatever other keywords the message holds.
C10_CommerceKeywordDefers ==
    (pc = "classified" /\ hasCommerceKeyword(userMessage)) => vadfIntent = "unknown"

\* The same statement for the copy of detectIntent that has the product keyword list.
CommerceKeywordDefersV2 ==
    (pc = "classified" /\ vadfManager.version = 2 /\ hasCommerceKeyword(userMessage))
        => vadfIntent = "unknown"

\* route A after a discovery in which a connection was rejected
discoveryFailed == variant = "A" /\ pc # "start" /\ mcpTools = {}

toolUseRequested(message) ==
    \E i \in 1..Len(message.content) : message.content[i].type = "tool_use"

\* C11: a rejected connection to a tool server does not end the session: the
\* discovery step hands over to the next step with an empty tool set, no tool
\* is requested or called in the turn, and the turn that completes has sent
\* end_turn once.
C11_DiscoveryFailureDegrades ==
    [][/\ (pc = "start" /\ variant = "A" /\ mcpTools' = {}) => pc' = "save_user"
       /\ discoveryFailed' =>
             /\ toolCalls' = <<>>
             /\ ~toolUseRequested(finalMessage')
             /\ pc' = "done" => Count(events', "end_turn") = 1]_vars

C11_Witness ==
    /\ discoveryFailed
    /\ promptType = "standardAssistant"
    /\ modelCalls >= 2
    /\ pc = "done"
    /\ Count(events, "end_turn") = 1
isToolResultMessage(message) ==
    /\ message.role = "user"
    /\ message.content.kind = "blocks"
    /\ \E i \in 1..Len(message.content.blocks) :
          message.content.blocks[i].type = "tool_result"

\* C12: every assistant message and every tool-result message of the
\* in-memory history is a row of the store of the conversation, at the same
\* position and with the same role and content.
C12_MessagesAreWrittenThrough ==
    \A i \in 1..Len(conversationHistory) :
        (conversationHistory[i].role = "assistant"
            \/ isToolResultMessage(conversationHistory[i])) =>
                /\ i <= Len(db)
                /\ decodeRow(db[i]) = conversationHistory[i]
lastMessage(history) == history[Len(history)]

\* C13: when the store rejects the write of an assistant message or of a
\* tool-result message, the step does not end the session and the message is
\* the last one of the in-memory history; no later step of the turn removes
\* or changes a message of the history; a turn that completes has sent
\* end_turn once.
C13_RejectedSaveIsNotFatal ==
    [][/\ (modelCalls' > modelCalls /\ pc' # "failed") =>
             /\ Len(conversationHistory') = Len(conversationHistory) + 1
             /\ lastMessage(conversationHistory').role = "assistant"
       /\ (Len(toolCalls') > Len(toolCalls) /\ isToolError(lastMessage(toolCalls').outcome)) =>
             /\ pc' # "failed"
             /\ Len(conversationHistory') = Len(conversationHistory) + 1
             /\ isToolResultMessage(lastMessage(conversationHistory'))
       /\ (pc \notin {"start", "save_user"}) =>
             /\ Len(conversationHistory') >= Len(conversationHistory)
             /\ SubSeq(conversationHistory', 1, Len(conversationHistory)) = conversationHistory
       /\ pc' = "done" => Count(events', "end_turn") = 1]_vars

\* every write of the model loop was rejected, for an assistant message with
\* a tool request, for the result of the failed tool call and for the last
\* assistant message, and the turn has completed
C13_Witness ==
    /\ variant = "A"
    /\ pc = "done"
    /\ modelCalls >= 2
    /\ Len(db) = 1
    /\ Len(conversationHistory) >= 4
    /\ \E i \in 1..Len(toolCalls) : toolCalls[i].outcome = "error"
    /\ Count(events, "end_turn") = 1
\* the row of the user message of this turn: the last row saved as raw text
turnStart(rows) ==
    CHOOSE j \in 1..Len(rows) :
        /\ "raw" \in DOMAIN rows[j].content
        /\ \A i \in (j + 1)..Len(rows) : "raw" \notin DOMAIN rows[i].content

\* C14: once the user message is saved, loading and decoding the rows of the
\* turn gives back the messages appended during the turn, in order: the user
\* message as the text it was, then every message pushed to the history.
C14_HistoryRoundTrip ==
    Len(conversationHistory) > 0 =>
        /\ Len(db) = Len(conversationHistory)
        /\ decodeRow(db[turnStart(db)]) = Msg("user", TextContent(userMessage))
        /\ \A i \in (turnStart(db) + 1)..Len(conversationHistory) :
              decodeRow(db[i]) = conversationHistory[i]
toolResultBlocks(message) ==
    IF message.content.kind = "blocks"
    THEN {k \in 1..Len(message.content.blocks) : message.content.blocks[k].type = "tool_result"}
    ELSE {}

requestsTool(message, id) ==
    /\ message.role = "assistant"
    /\ message.content.kind = "blocks"
    /\ \E k \in 1..Len(message.content.blocks) :
          /\ message.content.blocks[k].type = "tool_use"
          /\ message.content.blocks[k].id = id

\* C15: each tool_result block of the conversation history carries the id of a
\* tool_use block of an assistant message that stands earlier in the history.
C15_ToolResultsFollowTheirRequests ==
    \A i \in 1..Len(conversationHistory) :
        \A k \in toolResultBlocks(conversationHistory[i]) :
            \E j \in 1..(i - 1) :
                requestsTool(conversationHistory[j],
                             conversationHistory[i].content.blocks[k].tool_use_id)
\* the data a response carries as JSON text or as an object
dataSent(response) ==
    IF "json" \in DOMAIN response.content[1].text
    THEN response.content[1].text.json
    ELSE response.content[1].text.object

\* the response carries data with a products array
isProductSearchOutcome(response) ==
    /\ "content" \in DOMAIN response
    /\ Len(response.content) > 0
    /\ \/ "json" \in DOMAIN response.content[1].text
       \/ "object" \in DOMAIN response.content[1].text
    /\ "products" \in DOMAIN dataSent(response)

productsSent(response) == dataSent(response).products

\* the records formatProductData can return for a product
normalizations(product) == {formatProductData(product, r) : r \in RandomIds}

\* C16: for a product-search outcome with n products, the records returned
\* are min(n, cap) in number and the i-th one is the normalization of the
\* i-th product of the outcome.
C16_CappedInOrder ==
    (pc = "processed" /\ isProductSearchOutcome(toolUseResponse)) =>
        /\ Len(productsToDisplay) = Min(Len(productsSent(toolUseResponse)), maxProductsToDisplay)
        /\ \A i \in 1..Len(productsToDisplay) :
              productsToDisplay[i] \in normalizations(productsSent(toolUseResponse)[i])

C16_Witness ==
    /\ pc = "processed"
    /\ isProductSearchOutcome(toolUseResponse)
    /\ Len(productsSent(toolUseResponse)) > maxProductsToDisplay
    /\ Len(productsToDisplay) = maxProductsToDisplay
    /\ productsToDisplay[1].id # productsToDisplay[2].id
\* C17: a product_results event carries at most maxProductsToDisplay records.
C17_ProductResultsWithinCap ==
    \A i \in 1..Len(events) :
        events[i].type = "product_results" => Len(events[i].data) <= maxProductsToDisplay

\* the response carries a text that JSON.parse rejects
isMalformedOutcome(response) ==
    /\ "content" \in DOMAIN response
    /\ Len(response.content) > 0
    /\ "raw" \in DOMAIN response.content[1].text
    /\ ~isJsonLiteral(response.content[1].text.raw)

\* C18: the step that handles a tool response whose text is not JSON does not
\* end the session: it adds no product, records the tool result in the
\* history and goes on with the turn; processProductSearchResult gives the
\* empty list and processToolResponseAsJson the empty object for it; a turn
\* that completes after it has sent end_turn once.
C18_MalformedPayloadIsNotFatal ==
    [][/\ (Len(toolCalls') > Len(toolCalls) /\ isMalformedOutcome(toolUseResponse')) =>
             /\ pc' = "tools"
             /\ productsToDisplay' = productsToDisplay
             /\ Len(conversationHistory') = Len(conversationHistory) + 1
             /\ isToolResultMessage(lastMessage(conversationHistory'))
             /\ processProductSearchResult(toolUseResponse', <<>>) = <<>>
             /\ processToolResponseAsJson(toolUseResponse') = EmptyObject
       /\ (pc' = "done" /\ \E i \in 1..Len(toolCalls') : toolCalls'[i].outcome = "malformed") =>
             Count(events', "end_turn") = 1]_vars

C18_Witness ==
    /\ pc = "done"
    /\ Len(toolCalls) >= 1
    /\ toolCalls[1].outcome = "malformed"
    /\ toolCalls[1].name = productSearchName
    /\ productsToDisplay = <<>>
    /\ Count(events, "end_turn") = 1

\* the product of a response that holds exactly one
soleProduct(response) == productsSent(response)[1]

\* the price the claim describes: from the price range when there is one, else
\* from the first variant, else the fallback text
describedPrice(product) ==
    IF "price_range" \in DOMAIN product
    THEN <<get(product.price_range, "currency"), " ", get(product.price_range, "min")>>
    ELSE IF "variants" \in DOMAIN product /\ product.variants # <<>>
    THEN <<get(Head(product.variants), "currency"), " ", get(Head(product.variants), "price")>>
    ELSE <<"Price not available">>

\* C19: the record made of a raw product, whatever fields it lacks, has id,
\* title, price, image_url, description and url defined, and its price is
\* the one of the price range when there is one, else the one of the first
\* variant, else the text "Price not available".
C19_EveryFieldDefined ==
    (/\ pc = "processed"
     /\ isProductSearchOutcome(toolUseResponse)
     /\ Len(productsSent(toolUseResponse)) = 1) =>
        /\ Len(productsToDisplay) = 1
        /\ \A f \in {"id", "title", "image_url", "description", "url"} :
              /\ f \in DOMAIN productsToDisplay[1]
              /\ productsToDisplay[1][f] # Undefined
        /\ "price" \in DOMAIN productsToDisplay[1]
        /\ productsToDisplay[1].price = describedPrice(soleProduct(toolUseResponse))
        /\ productsToDisplay[1].id \in RandomIds \cup {get(soleProduct(toolUseResponse), "product_id")}
        /\ productsToDisplay[1].title \in {"Product", get(soleProduct(toolUseResponse), "title")}

\* a product with nothing but price data, range and variants both
C19_Witness ==
    /\ pc = "processed"
    /\ isProductSearchOutcome(toolUseResponse)
    /\ Len(productsSent(toolUseResponse)) = 1
    /\ DOMAIN soleProduct(toolUseResponse) = {"price_range", "variants"}
    /\ Len(soleProduct(toolUseResponse).variants) = 2
    /\ productsToDisplay[1].title = "Product"
    /\ productsToDisplay[1].price = <<"EUR", " ", "10">>
\* the condition "name == literal", given by its pieces, is satisfied by a
\* context in which the variable has the literal as its value
conditionSatisfied(cond, context) ==
    /\ cond[1] \in DOMAIN context
    /\ context[cond[1]] = cond[Len(cond)]

\* all the conditions of a template are satisfied; none is needed when it has none
templateSatisfied(tpl, context) ==
    \A c \in 1..Len(tpl.conditions) : conditionSatisfied(tpl.conditions[c], context)

firstSatisfied(tpls, context) ==
    CHOOSE k \in 1..Len(tpls) :
        /\ templateSatisfied(tpls[k], context)
        /\ \A j \in 1..(k - 1) : ~templateSatisfied(tpls[j], context)

\* C20: for an intent of the rule set and a context that satisfies at least
\* one of its templates, getResponse returns the first template, in the order
\* of declaration, whose conditions the context satisfies, with the intent as
\* its type.
C20_FirstSatisfiedTemplateWins ==
    (/\ pc = "responded"
     /\ vadfIntent \in DOMAIN vadfManager.responses.intents
     /\ \E k \in 1..Len(vadfManager.responses.intents[vadfIntent]) :
           templateSatisfied(vadfManager.responses.intents[vadfIntent][k], vadfContext)) =>
        LET tpls == vadfManager.responses.intents[vadfIntent]
        IN  vadfResponse = [text |-> replaceVars(tpls[firstSatisfied(tpls, vadfContext)].text,
                                                 vadfContext),
                            type |-> vadfIntent]

\* the intent has templates and each of them has a condition the context
\* leaves unsatisfied
noTemplateSatisfied(responses, intent, context) ==
    /\ intent \in DOMAIN responses.intents
    /\ \A k \in 1..Len(responses.intents[intent]) :
           ~templateSatisfied(responses.intents[intent][k], context)

\* C21: for an intent that the rule set lacks (the fallback intent of a
\* message without keyword among them), or whose templates all have a
\* condition the context does not satisfy, getResponse returns the shared
\* generic-error phrase with the type "error".
C21_NoMatchGivesGenericError ==
    (/\ pc = "responded"
     /\ \/ vadfIntent \notin DOMAIN vadfManager.responses.intents
        \/ noTemplateSatisfied(vadfManager.responses, vadfIntent, vadfContext)) =>
        vadfResponse = [text |-> vadfManager.responses.common_phrases.error,
                        type |-> "error"]

\* getResponse("mise_a_jour_infos_entreprise", {compte_actif: false}): the only
\* template asks for compte_actif == true
C21_Witness ==
    /\ pc = "responded"
    /\ vadfIntent = "mise_a_jour_infos_entreprise"
    /\ vadfContext = [compte_actif |-> "false"]
    /\ noTemplateSatisfied(vadfManager.responses, vadfIntent, vadfContext)
    /\ vadfResponse = [text |-> ErrorPhrase, type |-> "error"]

\* {{name}} stands at position i of the text: two opening braces, a name of
\* n word characters, two closing braces
placeholderAt(chars, i, n) ==
    /\ n >= 1
    /\ i + n + 3 <= Len(chars)
    /\ chars[i] = "{" /\ chars[i + 1] = "{"
    /\ \A k \in (i + 2)..(i + n + 1) : chars[k] \in WordChars
    /\ chars[i + n + 2] = "}" /\ chars[i + n + 3] = "}"

placeholders(chars) ==
    {p \in (1..Len(chars)) \X (1..Len(chars)) : placeholderAt(chars, p[1], p[2])}

RECURSIVE ascending(_)
ascending(S) ==
    IF S = {} THEN <<>>
    ELSE LET least == CHOOSE x \in S : \A y \in S : x <= y
         IN  <<least>> \o ascending(S \ {least})

\* the context has a value for the name
present(name, context) == name \in DOMAIN context /\ context[name] # Null

\* the text with each placeholder replaced by the value of its name, or by the
\* ellipsis marker, and every other character kept
substituted(chars, context) ==
    LET P == placeholders(chars)
        covered == {k \in 1..Len(chars) :
                       \E p \in P : p[1] < k /\ k <= p[1] + p[2] + 3}
        kept == ascending((1..Len(chars)) \ covered)
    IN  [j \in 1..Len(kept) |->
            IF \E p \in P : p[1] = kept[j]
            THEN LET p == CHOOSE q \in P : q[1] = kept[j]
                     name == SubSeq(chars, p[1] + 2, p[1] + p[2] + 1)
                 IN  IF present(name, context) THEN context[name] ELSE Ellipsis
            ELSE chars[kept[j]]]

hasManager(r) == callers[r].pc \in {"returned", "classified", "done", "threw"}

\* C26: if loading the rule set fails, getVadfManager fails, and no later
\* getVadfManager call returns a manager whose rule set is not loaded: each
\* later call fails too or loads the rule set completely before it returns.
C26_NoUnloadedManagerAfterFailure ==
    [][ /\ \A r \in Requests :
              (callers[r].pc = "loading" /\ ~vadfManager'.loaded /\ callers'[r].pc # "loading")
                  => callers'[r].pc = "failed"
        /\ (\E q \in Requests : callers[q].pc = "failed") =>
              \A r \in Requests :
                  (callers[r].pc = "idle" /\ hasManager(r)') => callers'[r].loaded ]_vars

\* C27: for any interleaving of concurrent getVadfManager calls, one request
\* arriving while the load of another is in progress, every caller receives a
\* manager whose rule set is fully loaded, and detectIntent never runs
\* against an absent rule set.
C27_EveryCallerReceivesLoadedManager ==
    (\A q \in Requests : callers[q].pc # "failed") =>
        \A r \in Requests :
            /\ hasManager(r) => callers[r].loaded
            /\ callers[r].pc # "threw"

\* C24: if a model call or any other step inside the session raises a
\* failure that is not handled, the orchestrator sends no end_turn, makes no
\* further model call or tool invocation, and the failure leaves
\* handleChatSession towards its caller.
C24_UnhandledFailurePropagates ==
    [][ /\ error' # Null => (pc' = "failed" /\ Count(events', "end_turn") = 0)
        /\ error # Null => (/\ modelCalls' = modelCalls
                            /\ toolCalls' = toolCalls
                            /\ events' = events
                            /\ error' = error) ]_vars

\* the second model call of the turn, made after a tool call, is rejected
C24_Witness ==
    /\ error = "model"
    /\ pc = "failed"
    /\ modelCalls = 2
    /\ Len(toolCalls) = 1
    /\ Count(events, "end_turn") = 0

\* C25: after the client has disconnected mid-stream, the calls in flight
\* are abandoned: the orchestrator issues no further model call and no
\* further tool invocation for that session.
C25_DisconnectAbandonsCalls ==
    [][~connected => (modelCalls' = modelCalls /\ toolCalls' = toolCalls)]_vars

\* the payloads of the chunk events sent so far, in the order they were sent
RECURSIVE chunkPayloads(_)
chunkPayloads(evs) ==
    IF evs = <<>> THEN <<>>
    ELSE (IF Head(evs).type = "chunk" THEN <<Head(evs).data>> ELSE <<>>)
         \o chunkPayloads(Tail(evs))

\* C28: within one turn the chunk events are sent in the order the text
\* deltas of the model arrive: the sequence of chunk payloads is the sequence
\* of deltas, none dropped, duplicated or moved.
C28_ChunksInArrivalOrder == chunkPayloads(events) = deltas

\* two model calls of one turn, two deltas each, a tool call between them
C28_Witness ==
    /\ modelCalls = 2
    /\ Len(toolCalls) >= 1
    /\ deltas = <<1, 2, 3, 4>>
    /\ chunkPayloads(events) = <<1, 2, 3, 4>>
    /\ pc = "done"

\* the chat request carries no message: no JSON body at all, or a body
\* without message or with an empty one
withoutMessage(req) ==
    /\ req.route = "chat"
    /\ \/ req.body.kind # "object"
       \/ "message" \notin DOMAIN req.body.fields
       \/ req.body.fields.message = <<>>

\* the authorization request lacks conversation_id or shop_id
withoutIdentifier(req) ==
    /\ req.route = "auth"
    /\ req.conversation_id \in {Undefined, ""} \/ req.shop_id \in {Undefined, ""}

\* C29: a request that lacks a required parameter is rejected with status
\* 400 before any processing: a chat request without a message writes
\* nothing to the store and opens no event stream, and an authorization
\* request without conversation_id or shop_id gives no redirect.
C29_MissingParameterRejected ==
    [][ /\ withoutMessage(httpRequest) =>
              /\ db' = db /\ events' = events
              /\ pc = "request" => (httpResponse'.status = 400 /\ ~httpResponse'.stream)
        /\ withoutIdentifier(httpRequest) =>
              (pc = "request" => (httpResponse'.status = 400 /\ ~httpResponse'.redirect)) ]_vars

\* session s has saved its user message and has not finished its turn
inTurn(s) == sessions[s].pc \in {"load", "loop", "tools"}

userRow(s) == [role |-> "user", content |-> [raw |-> sessionMessage(s)]]

\* the row is the assistant message of session s
isAnswerOf(row, s) ==
    /\ row.role = "assistant"
    /\ row.content.json.blocks[1].text = sessionMessage(s)

\* C30: no lock serializes the sessions of one conversation: while a session
\* is in its turn, every other unfinished session of the same conversation
\* can take its next step, so that the stored history can interleave the
\* messages of two turns and the history a session loads can hold the user
\* message of the other.
C30_NoLockSerializesSessions ==
    \A s \in Sessions : \A t \in Sessions \ {s} :
        (inTurn(s) /\ sessions[t].pc # "done") => ENABLED SessionStep(t)

\* the user message of session 2 is stored between the user message and the
\* answer of session 1, and the history session 1 loaded holds it
C30_Witness ==
    /\ Len(db) >= 3
    /\ db[1] = userRow(1)
    /\ db[2] = userRow(2)
    /\ isAnswerOf(db[3], 1)
    /\ Len(sessions[1].history) >= 3
    /\ sessions[1].history[2] = Msg("user", TextContent(sessionMessage(2)))

\* the stop reasons on which the loop ends
terminalStopReason == finalMessage.stop_reason \in {"end_turn", "auth_required"}

\* a step of the while loop that calls streamConversation: an API call, or on
\* the token route without a token the authorization answer or its failure
callsStreamConversation ==
    \/ modelCalls' = modelCalls + 1
    \/ /\ variant = "B"
       /\ customerAccessToken = Null
       /\ \/ finalMessage'.stop_reason = "auth_required"
          \/ error' = "authorization"

\* C31: at the head of the model loop the session calls the model again if
\* and only if the stop reason of the last model response is neither end_turn
\* nor auth_required; on either of the two the loop exits (end_turn is sent)
\* without another model call.
C31_LoopContinuesUnlessTerminal ==
    [][pc = "loop" =>
          IF terminalStopReason
          THEN /\ pc' = "done"
               /\ modelCalls' = modelCalls
               /\ finalMessage' = finalMessage
          ELSE /\ pc' # "done"
               /\ callsStreamConversation]_vars

\* a turn that ended after a model response with another stop reason led to a
\* second model call
C31_Witness ==
    /\ pc = "done"
    /\ modelCalls >= 2
    /\ finalMessage.stop_reason = "end_turn"

\* the positions of the tool calls that failed with an error other than auth_required
failedToolCalls == {i \in 1..Len(toolCalls) : toolCalls[i].outcome = "error"}

\* the positions in the history of the tool_result of a tool-use request
toolResultsOf(toolUseId) ==
    {k \in 1..Len(conversationHistory) :
        /\ conversationHistory[k].role = "user"
        /\ conversationHistory[k].content.kind = "blocks"
        /\ conversationHistory[k].content.blocks[1].type = "tool_result"
        /\ conversationHistory[k].content.blocks[1].tool_use_id = toolUseId}

\* C32: a tool invocation that fails with an error other than auth_required
\* is made once for its tool-use request (no retry), one tool_result with the
\* error detail and the id of the request is appended to the history, no
\* auth_required event is emitted for it, and the turn does not end before
\* the model was called again with that history.
C32_ToolErrorFedBackOnce ==
    /\ \A i \in failedToolCalls :
          /\ Cardinality({j \in 1..Len(toolCalls) : toolCalls[j].id = toolCalls[i].id}) = 1
          /\ Cardinality(toolResultsOf(toolCalls[i].id)) = 1
          /\ \A k \in toolResultsOf(toolCalls[i].id) :
                /\ conversationHistory[k] = toolResultMessage(toolCalls[i].id, "error")
                /\ pc = "done" =>
                      \E n \in (k + 1)..Len(conversationHistory) :
                          conversationHistory[n].role = "assistant"
    /\ Count(events, "auth_required") =
          Cardinality({i \in 1..Len(toolCalls) : toolCalls[i].outcome = "auth_required"})

\* a turn ended after a failed tool call and a later model call, and no
\* auth_required event was sent
C32_Witness ==
    /\ pc = "done"
    /\ failedToolCalls # {}
    /\ Count(events, "auth_required") = 0
    /\ modelCalls >= 2

\* the resolutions that have returned to handleChatSession
resolved == {r \in DOMAIN resolutions : resolutions[r].pc = "session"}

\* C33: a successful resolution of the customer endpoint has stored the
\* discovered URL under the conversation before the endpoint is returned for
\* use; a resolution that finds a URL stored for its conversation returns the
\* endpoint of that URL without querying the shop again; a failed resolution
\* returns the absent endpoint to the session, which goes on.
C33_EndpointCachedPerConversation ==
    \A r \in DOMAIN resolutions :
        /\ resolutions[r].pc \in {"cache", "discover", "store", "session"}
        /\ r \in resolved =>
              LET res == resolutions[r]
              IN  /\ res.endpoint # NoEndpoint =>
                        /\ customerAccountUrls[res.conversation] # Null
                        /\ res.endpoint = mcpEndpoint(customerAccountUrls[res.conversation])
                  /\ res.cached # Null =>
                        /\ ~res.queried
                        /\ res.endpoint = mcpEndpoint(res.cached)

\* one request resolved the endpoint by a query and stored it, a later one of
\* the same conversation got the same endpoint from the store
C33_Witness ==
    \E r1 \in resolved : \E r2 \in resolved \ {r1} :
        /\ resolutions[r1].conversation = resolutions[r2].conversation
        /\ resolutions[r1].queried /\ resolutions[r1].endpoint # NoEndpoint
        /\ resolutions[r2].cached # Null /\ ~resolutions[r2].queried
        /\ resolutions[r2].endpoint = resolutions[r1].endpoint

\* the entries of a keyword table one of whose keywords occurs in the
\* lower-cased message
matching(mapping, message) ==
    {i \in 1..Len(mapping) : someIncluded(mapping[i].keywords, toLowerCase(message))}

\* the result is the intent of the entry of the table that matches and is
\* declared before every other matching entry
isFirstMatching(mapping, message, intent) ==
    \E i \in matching(mapping, message) :
        /\ mapping[i].intent = intent
        /\ \A j \in matching(mapping, message) : i <= j

\* C34: for a message with no commerce keyword, detectIntent returns the
\* first specific business intent, in declaration order, with a keyword in
\* the lower-cased message; if no specific intent matches, the first
\* matching generic intent; and 'unknown' when nothing matches.
C34_SpecificBeforeGeneric ==
    (pc = "classified" /\ vadfManager.version = 2 /\ ~hasCommerceKeyword(userMessage)) =>
        IF matching(specificMapping, userMessage) # {}
        THEN isFirstMatching(specificMapping, userMessage, vadfIntent)
        ELSE IF matching(genericMapping, userMessage) # {}
        THEN isFirstMatching(genericMapping, userMessage, vadfIntent)
        ELSE vadfIntent = "unknown"

\* a message with keywords of two specific intents was classified as the
\* specific intent declared first
C34_Witness ==
    /\ pc = "classified" /\ vadfManager.version = 2
    /\ ~hasCommerceKeyword(userMessage)
    /\ Cardinality(matching(specificMapping, userMessage)) >= 2
    /\ vadfIntent = "activation_compte"

\* the intent is in the rule set and one of its templates has every condition
\* satisfied by the context
someTemplateSatisfied(responses, intent, context) ==
    /\ intent \in DOMAIN responses.intents
    /\ \E k \in 1..Len(responses.intents[intent]) :
           templateSatisfied(responses.intents[intent][k], context)

\* C35: getResponse returns a response whose type is the intent tag exactly
\* when the intent is in the rule set and some template of it has every
\* condition "var == literal" satisfied (the context variable is present and
\* its string form equals the literal); in every other case the type is
\* "error".
C35_TypeIsIntentIffSatisfied ==
    pc = "responded" =>
        IF someTemplateSatisfied(vadfManager.responses, vadfIntent, vadfContext)
        THEN vadfResponse.type = vadfIntent
        ELSE vadfResponse.type = "error"

\* the session took the deterministic path and has finished it
deterministicDone == pc = "done" /\ vadfIntent # Null

\* the events of a type, in the order sent
eventsOfType(type) ==
    {i \in 1..Len(events) : events[i].type = type}

\* C36: in the deterministic path an escalade event is emitted if and only if
\* the account status is not_pro, or the intent is escalade_support, or the
\* type of the response is "error"; the escalation intent always produces an
\* escalade event with the contact contact@vadf.fr.
C36_EscaladeIffNotEligibleOrError ==
    deterministicDone =>
        /\ eventsOfType("escalade") # {} <=>
              \/ accountCheckResult.status = "not_pro"
              \/ vadfIntent = "escalade_support"
              \/ vadfResponse.type = "error"
        /\ vadfIntent = "escalade_support" =>
              \E i \in eventsOfType("escalade") : events[i].data.contact = "contact@vadf.fr"

\* an account that is not a professional one got an answer of the type of its
\* intent and the escalation
C36_Witness ==
    /\ deterministicDone
    /\ accountCheckResult.status = "not_pro"
    /\ vadfResponse.type = vadfIntent
    /\ Cardinality(eventsOfType("escalade")) = 1

modelNeverTerminal ==
    /\ pc = "loop"
    /\ modelCalls = MaxModelCalls
    /\ ~terminalStopReason

\* C38: when every model call and every tool call returns and the model
\* eventually answers with a terminal stop reason, the session eventually
\* reaches its end and has sent end_turn.
C38_SessionEventuallyDone ==
    \/ <>(pc = "done" /\ Count(events, "end_turn") = 1)
    \/ <>[]modelNeverTerminal

\* the position of the k-th event of a type
nthEvent(type, k) ==
    CHOOSE i \in eventsOfType(type) :
        Cardinality({j \in eventsOfType(type) : j <= i}) = k

\* the assistant messages of the history that hold the tool_use block of a request
requestsOf(toolUseId) ==
    {k \in 1..Len(conversationHistory) :
        /\ conversationHistory[k].role = "assistant"
        /\ conversationHistory[k].content.kind = "blocks"
        /\ \E b \in 1..Len(conversationHistory[k].content.blocks) :
              /\ conversationHistory[k].content.blocks[b].type = "tool_use"
              /\ conversationHistory[k].content.blocks[b].id = toolUseId}

\* C39: on the route with onToolUse, a tool is invoked only after the
\* message_complete event of its assistant message, which is in the history;
\* the tools are invoked one at a time in the order of their blocks, each
\* after its tool_use event, and each is followed by a new_message event that
\* comes after its tool result is in the history and before the tool_use
\* event of the next invocation.
C39_ToolsAfterMessageOneAtATime ==
    variant = "A" =>
        /\ Cardinality(eventsOfType("tool_use")) = Len(toolCalls)
        /\ Cardinality(eventsOfType("new_message")) = Len(toolCalls)
        /\ \A i \in 1..Len(toolCalls) :
              /\ \E mc \in eventsOfType("message_complete") : mc < nthEvent("tool_use", i)
              /\ events[nthEvent("tool_use", i)].data = toolCalls[i].name
              /\ nthEvent("tool_use", i) < nthEvent("new_message", i)
              /\ \E q \in requestsOf(toolCalls[i].id) :
                    \E k \in toolResultsOf(toolCalls[i].id) : q < k
              /\ i < Len(toolCalls) =>
                    /\ nthEvent("new_message", i) < nthEvent("tool_use", i + 1)
                    /\ toolCalls[i].id < toolCalls[i + 1].id

\* the row saveMessage writes for the user message of the turn
userMessageRow == [role |-> "user", content |-> [raw |-> userMessage]]

\* C40: a turn of the deterministic path adds exactly one row to the stored
\* conversation, the user message, and the history the turn loaded holds it
\* (it was written before the load); the reply sent as vadf_response is
\* neither appended to the history nor written to the store.
C40_DeterministicTurnStoresUserMessageOnly ==
    deterministicDone =>
        /\ \E prior \in PriorStores : db = Append(prior, userMessageRow)
        /\ conversationHistory = decodeHistory(db)
        /\ \A i \in 1..Len(conversationHistory) :
              conversationHistory[i].content # TextContent(vadfResponse.text)

\* a deterministic turn on a conversation with an earlier turn has sent its
\* reply and has stored the user message after the rows of that turn
C40_Witness ==
    /\ deterministicDone
    /\ eventsOfType("vadf_response") # {}
    /\ vadfResponse.text # <<>>
    /\ db = Append(PriorTurn, userMessageRow)
    /\ Len(conversationHistory) = 3
====
